---- MODULE Spec2Model ----
(***************************************************************************)
(* Stepper 3.0: the search and ranking subsystem (src/src/lib/search.js,   *)
(* the Search object that starts at line 229).                             *)
(*                                                                         *)
(* A JavaScript string is a sequence of one-character strings, so that     *)
(* includes, startsWith, split and the regular expressions of the source   *)
(* are computed character by character.  Scores are in tenths of a point   *)
(* (the source adds 0.5 and 0.3): 10 points are 100 here.                  *)
(***************************************************************************)
EXTENDS Integers, Sequences, FiniteSets, TLC

(***************************************************************************)
(* Bounds of the model                                                     *)
(***************************************************************************)
\* the largest guide collection searched (above the 20 rerank candidates)
MaxArticles == 21
\* length of the repeating pattern of guide contents a collection is built from
PatLen == 2
\* milliseconds of one step of the clock
TickMs == 5000

\* the most responses that reach a request after it was aborted
MaxLateResponses == 2

(***************************************************************************)
(* Constants of the program                                                *)
(***************************************************************************)
\* searchArticles: slice(0, 10)
TopN == 10
\* llmRerank: articles.slice(0, 20)
MaxCandidates == 20
\* llmRerank: setTimeout(() => controller.abort(), 10000)
LLM_TIMEOUT_MS == 10000
\* tokenize: token.length > 2
MinTokenLen == 2

(***************************************************************************)
(* Strings                                                                 *)
(***************************************************************************)
UpperCase == <<"A","B","C","D","E","F","G","H","I","J","K","L","M","N","O","P","Q","R","S","T","U","V","W","X","Y","Z">>
LowerCase == <<"a","b","c","d","e","f","g","h","i","j","k","l","m","n","o","p","q","r","s","t","u","v","w","x","y","z">>

\* String.prototype.toLowerCase, one character
LowerChar(c) ==
  IF \E i \in 1..Len(UpperCase) : UpperCase[i] = c
  THEN LowerCase[CHOOSE i \in 1..Len(UpperCase) : UpperCase[i] = c]
  ELSE c

\* String.prototype.toLowerCase
toLowerCase(s) == [i \in 1..Len(s) |-> LowerChar(s[i])]

\* the characters \s matches
IsSpace(c) == c \in {" ", "\t", "\n"}

RECURSIVE trimStart(_)
trimStart(s) ==
  IF s # <<>> /\ IsSpace(Head(s)) THEN trimStart(Tail(s)) ELSE s

RECURSIVE trimEnd(_)
trimEnd(s) ==
  IF s # <<>> /\ IsSpace(s[Len(s)]) THEN trimEnd(SubSeq(s, 1, Len(s) - 1)) ELSE s

\* String.prototype.trim
trim(s) == trimEnd(trimStart(s))

\* String.prototype.includes
includes(s, q) ==
  \E i \in 0..(Len(s) - Len(q)) : SubSeq(s, i + 1, i + Len(q)) = q

\* String.prototype.startsWith
startsWith(s, q) == Len(q) <= Len(s) /\ SubSeq(s, 1, Len(q)) = q

\* html.replace(/<[^>]*>/g, ' '): a "<" with a later ">" is a tag up to the
\* first such ">"; a "<" with no ">" after it stays
RECURSIVE replaceTags(_)
replaceTags(s) ==
  IF s = <<>> THEN <<>>
  ELSE IF Head(s) = "<" /\ \E j \in 2..Len(s) : s[j] = ">"
       THEN LET j == CHOOSE j \in 2..Len(s) :
                       s[j] = ">" /\ \A k \in 2..(j - 1) : s[k] # ">"
            IN  <<" ">> \o replaceTags(SubSeq(s, j + 1, Len(s)))
       ELSE <<Head(s)>> \o replaceTags(Tail(s))

\* .replace(/\s+/g, ' ')
RECURSIVE collapseSpaces(_)
collapseSpaces(s) ==
  IF s = <<>> THEN <<>>
  ELSE IF IsSpace(Head(s)) THEN <<" ">> \o collapseSpaces(trimStart(s))
       ELSE <<Head(s)>> \o collapseSpaces(Tail(s))

\* Search.stripHtml
stripHtml(html) ==
  IF html = <<>> THEN <<>> ELSE trim(collapseSpaces(replaceTags(html)))

\* the separators of tokenize: /[\s\-_.,;:!?()[\]{}]+/
Separators ==
  {" ", "\t", "\n", "-", "_", ".", ",", ";", ":", "!", "?", "(", ")", "[", "]", "{", "}"}

RECURSIVE dropSeparators(_)
dropSeparators(s) ==
  IF s # <<>> /\ Head(s) \in Separators THEN dropSeparators(Tail(s)) ELSE s

\* String.prototype.split on a run of separators; cur is the piece being read
RECURSIVE split(_, _)
split(s, cur) ==
  IF s = <<>> THEN <<cur>>
  ELSE IF Head(s) \in Separators
       THEN <<cur>> \o split(dropSeparators(s), <<>>)
       ELSE split(Tail(s), Append(cur, Head(s)))

\* a filter that keeps the pieces of MinTokenLen characters
LongEnough_atLeast(token) == Len(token) >= MinTokenLen

\* .filter(token => token.length > 2)
LongEnough(token) == Len(token) > MinTokenLen

\* Search.tokenize
tokenize(text) ==
  IF text = <<>> THEN <<>>
  ELSE SelectSeq(split(toLowerCase(text), <<>>), LongEnough)

\* the characters query.replace(/[.*+?^${}()|[\]\\]/g, '\\$&') escapes
RegExpSpecial == {".", "*", "+", "?", "^", "$", "{", "}", "(", ")", "|", "[", "]", "\\"}

\* query.replace(/[.*+?^${}()|[\]\\]/g, '\\$&'): a backslash before each
\* special character
RECURSIVE escapeRegExp(_)
escapeRegExp(q) ==
  IF q = <<>> THEN <<>>
  ELSE (IF Head(q) \in RegExpSpecial THEN <<"\\", Head(q)>> ELSE <<Head(q)>>)
       \o escapeRegExp(Tail(q))

\* new RegExp(pattern): the atoms of a pattern made of escaped characters,
\* plain characters and "." (any character but a line break)
RECURSIVE regExpAtoms(_)
regExpAtoms(p) ==
  IF p = <<>> THEN <<>>
  ELSE IF Head(p) = "\\" /\ Len(p) >= 2
       THEN <<[any |-> FALSE, ch |-> p[2]]>> \o regExpAtoms(SubSeq(p, 3, Len(p)))
       ELSE <<[any |-> Head(p) = ".", ch |-> Head(p)]>> \o regExpAtoms(Tail(p))

\* the atoms match the start of s
matchesAt(s, atoms) ==
  /\ Len(atoms) <= Len(s)
  /\ \A i \in 1..Len(atoms) :
       IF atoms[i].any THEN s[i] # "\n" ELSE s[i] = atoms[i].ch

\* (s.match(new RegExp(pattern, 'g')) || []).length: the matches are taken
\* from left to right and do not overlap
RECURSIVE countMatches(_, _)
countMatches(s, atoms) ==
  IF atoms = <<>> \/ Len(s) < Len(atoms) THEN 0
  ELSE IF matchesAt(s, atoms)
       THEN 1 + countMatches(SubSeq(s, Len(atoms) + 1, Len(s)), atoms)
       ELSE countMatches(Tail(s), atoms)

\* a pattern made of the query as typed
occurrencePattern_unescaped(query) == query

\* the pattern the scorer counts with: the escaped query
occurrencePattern(query) == escapeRegExp(query)

RECURSIVE SumSeq(_)
SumSeq(s) == IF s = <<>> THEN 0 ELSE Head(s) + SumSeq(Tail(s))

Min(a, b) == IF a <= b THEN a ELSE b

(***************************************************************************)
(* Relevance score (tenths of a point)                                     *)
(***************************************************************************)
\* the body of article.tags.forEach in calculateRelevanceScore
tagScore(tag, query, queryTokens) ==
  LET tagLower == toLowerCase(tag)
  IN  (IF includes(tagLower, query) THEN 50 ELSE 0)
      + SumSeq([k \in 1..Len(queryTokens) |->
                  IF includes(tagLower, queryTokens[k]) THEN 20 ELSE 0])

\* the body of the first article.steps.forEach in calculateRelevanceScore
stepScore(step, query) ==
  LET stepTitle == toLowerCase(step.title)
      stepBody == toLowerCase(stripHtml(step.bodyHtml))
      occurrences == countMatches(stepBody, regExpAtoms(occurrencePattern(query)))
  IN  (IF includes(stepTitle, query) THEN 20 ELSE 0)
      + (IF includes(stepBody, query) THEN 10 + Min(occurrences * 5, 30) ELSE 0)

\* the body of queryTokens.forEach under queryTokens.length > 1
tokenScore(token, title, summary, steps) ==
  (IF includes(title, token) THEN 10 ELSE 0)
  + (IF includes(summary, token) THEN 5 ELSE 0)
  + SumSeq([i \in 1..Len(steps) |->
              IF includes(toLowerCase(stripHtml(steps[i].bodyHtml)), token)
              THEN 3 ELSE 0])

\* Search.calculateRelevanceScore
calculateRelevanceScore(query, queryTokens, article) ==
  LET title == toLowerCase(article.title)
      summary == toLowerCase(article.summary)
  IN  (IF includes(title, query)
       THEN 100 + (IF startsWith(title, query) THEN 50 ELSE 0) ELSE 0)
      + SumSeq([i \in 1..Len(article.tags) |->
                  tagScore(article.tags[i], query, queryTokens)])
      + (IF includes(summary, query) THEN 40 ELSE 0)
      + SumSeq([i \in 1..Len(article.steps) |-> stepScore(article.steps[i], query)])
      + (IF Len(queryTokens) > 1
         THEN SumSeq([k \in 1..Len(queryTokens) |->
                        tokenScore(queryTokens[k], title, summary, article.steps)])
         ELSE 0)

(***************************************************************************)
(* Keyword ranking                                                         *)
(***************************************************************************)
\* !query || !query.trim()
IsBlank(query) == trim(query) = <<>>

\* Array.prototype.slice(0, n)
slice(s, n) == SubSeq(s, 1, Min(n, Len(s)))

\* a sort that puts r before the entries of its own score
RECURSIVE insertByScore_unstable(_, _)
insertByScore_unstable(sorted, r) ==
  IF sorted = <<>> THEN <<r>>
  ELSE IF Head(sorted).score > r.score
       THEN <<Head(sorted)>> \o insertByScore_unstable(Tail(sorted), r)
       ELSE <<r>> \o sorted

\* results.sort((a, b) => b.score - a.score), one insertion: Array.prototype.sort
\* is stable, so r goes after every entry whose score is not smaller
RECURSIVE insertByScore(_, _)
insertByScore(sorted, r) ==
  IF sorted = <<>> THEN <<r>>
  ELSE IF Head(sorted).score >= r.score
       THEN <<Head(sorted)>> \o insertByScore(Tail(sorted), r)
       ELSE <<r>> \o sorted

\* results.sort((a, b) => b.score - a.score)
RECURSIVE sortByScore(_)
sortByScore(rs) ==
  IF rs = <<>> THEN <<>>
  ELSE insertByScore(sortByScore(SubSeq(rs, 1, Len(rs) - 1)), rs[Len(rs)])

\* a filter that lets a score of 0 through
Matches_nonNegative(r) == r.score >= 0

\* if (score > 0) results.push(...)
Matches(r) == r.score > 0

\* the value keywordSearch returns for a blank query
blankQueryResult(articles) == <<>>

\* Search.keywordSearch
keywordSearch(query, articles) ==
  IF IsBlank(query) THEN blankQueryResult(articles)
  ELSE IF articles = <<>> THEN <<>>
  ELSE LET normalizedQuery == trim(toLowerCase(query))
           queryTokens == tokenize(query)
           scored == [i \in 1..Len(articles) |->
                        [article |-> articles[i],
                         score |-> calculateRelevanceScore(normalizedQuery,
                                                           queryTokens, articles[i])]]
           results == sortByScore(SelectSeq(scored, Matches))
       IN  [i \in 1..Len(results) |-> results[i].article]

(***************************************************************************)
(* Guides and queries searched                                             *)
(***************************************************************************)
\* the guide of the score composition example
PasswordGuide ==
  [title |-> <<"P","a","s","s","w","o","r","d"," ","R","e","s","e","t"," ","P","r","o","c","e","d","u","r","e">>,
   tags |-> <<<<"p","a","s","s","w","o","r","d">>, <<"a","c","t","i","v","e","-","d","i","r","e","c","t","o","r","y">>>>,
   summary |-> <<"S","t","e","p","-","b","y","-","s","t","e","p"," ","g","u","i","d","e"," ","t","o"," ","r","e","s","e","t"," ","u","s","e","r"," ","p","a","s","s","w","o","r","d","s">>,
   steps |-> <<[title |-> <<"V","e","r","i","f","y"," ","U","s","e","r"," ","I","d","e","n","t","i","t","y">>,
                bodyHtml |-> <<"<","p",">","p","a","s","s","w","o","r","d"," ","p","a","s","s","w","o","r","d","<","/","p",">">>]>>]

VpnGuide ==
  [title |-> <<"V","P","N"," ","S","e","t","u","p">>,
   tags |-> <<<<"v","p","n">>, <<"n","e","t","w","o","r","k">>>>,
   summary |-> <<"C","o","n","f","i","g","u","r","e"," ","t","h","e"," ","V","P","N">>,
   steps |-> <<[title |-> <<"I","n","s","t","a","l","l"," ","v","p","n"," ","c","l","i","e","n","t">>,
                bodyHtml |-> <<"<","p",">","v","p","n"," ","v","p","n"," ","<","b",">","v","p","n","<","/","b",">"," ","v","p","n","<","/","p",">","<","p",">","v","p","n"," ","v","p","n"," ","v","p","n","<","/","p",">">>],
               [title |-> <<"R","e","s","e","t"," ","p","a","s","s","w","o","r","d">>,
                bodyHtml |-> <<"<","p",">","a",".","c"," ","a","b","c","<","/","p",">">>]>>]

\* a guide with the optional fields missing
PrinterGuide ==
  [title |-> <<"P","r","i","n","t","e","r">>, tags |-> <<>>, summary |-> <<>>, steps |-> <<>>]

ResetGuide ==
  [title |-> <<"H","o","w"," ","t","o"," ","r","e","s","e","t"," ","a"," ","p","a","s","s","w","o","r","d">>,
   tags |-> <<<<"r","e","s","e","t","-","p","a","s","s","w","o","r","d">>>>,
   summary |-> <<"R","e","s","e","t"," ","t","h","e"," ","v","p","n"," ","p","a","s","s","w","o","r","d">>,
   steps |-> <<[title |-> <<>>, bodyHtml |-> <<"a","x","c"," ","<","i",">","v","p","<","/","i",">","n">>]>>]

NetworkGuide ==
  [title |-> <<"N","e","t","w","o","r","k">>,
   tags |-> <<<<"V","P","N">>>>,
   summary |-> <<>>,
   steps |-> <<[title |-> <<"C","h","e","c","k">>, bodyHtml |-> <<"p","a","s","s","w","o","r","d">>]>>]

GuidePool == <<PasswordGuide, VpnGuide, PrinterGuide, ResetGuide, NetworkGuide>>

Queries ==
  { <<>>, <<" "," ">>, <<"p","a","s","s","w","o","r","d">>, <<"V","P","N"," ">>, <<"r","e","s","e","t"," ","p","a","s","s","w","o","r","d">>, <<"v","p">> }

\* the queries the keyword ranker alone is given: a pattern metacharacter
\* and a piece too short for a token as well
RankQueries == Queries \cup { <<"a",".","c">>, <<"v","p","n"," ","t","o"," ","r","e","s","e","t">> }

\* the sizes of the collections searched
ArticleCounts == {0, 1, 2, 3, TopN + 1, MaxArticles}

\* the contents of a collection: guide i has the contents pat[((i-1) % PatLen) + 1]
\* of the pool
Patterns == [1..PatLen -> 1..Len(GuidePool)]

DigitChars == <<"0","1","2","3","4","5","6","7","8","9">>

\* the decimal digits of a natural number
RECURSIVE decimal(_)
decimal(n) ==
  IF n < Len(DigitChars) THEN <<DigitChars[n + 1]>>
  ELSE Append(decimal(n \div Len(DigitChars)), DigitChars[(n % Len(DigitChars)) + 1])

\* the id of guide i: its own, or with dup the id of the first guide for the
\* second one (the store takes the ids of a synced repository file as they
\* come and does not compare them)
idOf(i, dup) == IF dup /\ i = 2 THEN decimal(1) ELSE decimal(i)

\* a collection of n guides; ref is the identity of the object, which two
\* guides never share
makeArticles(n, pat, dup) ==
  [i \in 1..n |-> [ref |-> i, id |-> idOf(i, dup)]
                    @@ GuidePool[pat[((i - 1) % PatLen) + 1]]]

\* the collections searchArticles is given: guides of the pool that match
\* by title, by summary or not at all (the password, printer and reset guides)
SearchPool == {1, 3, 4}

SearchPatterns == [1..PatLen -> SearchPool]

Collections ==
  {makeArticles(n, pat, dup) :
     n \in ArticleCounts, pat \in SearchPatterns, dup \in BOOLEAN}

\* the collections the keyword ranker alone is given: few guides, of every
\* content of the pool
RankCounts == {0, 1, 2, 3, 4}

RankCollections ==
  {makeArticles(n, pat, dup) : n \in RankCounts, pat \in Patterns, dup \in BOOLEAN}

\* settings.enableLLMSearch, settings.llmEndpoint, settings.llmApiKey
SettingsChoices ==
  [enableLLMSearch : BOOLEAN,
   llmEndpoint : {"", "https://llm.example/v1/chat/completions"},
   llmApiKey : {"", "sk-key"}]

(***************************************************************************)
(* LLM reranking: the reorder of the candidates                            *)
(***************************************************************************)
\* a Map is the sequence of its entries in insertion order
mapHas(m, k) == \E i \in 1..Len(m) : m[i].key = k

mapGet(m, k) == m[CHOOSE i \in 1..Len(m) : m[i].key = k].value

\* Map.prototype.set: a key already present keeps its place and takes the value
mapSet(m, k, v) ==
  IF mapHas(m, k)
  THEN [i \in 1..Len(m) |-> IF m[i].key = k THEN [key |-> k, value |-> v] ELSE m[i]]
  ELSE Append(m, [key |-> k, value |-> v])

mapDelete(m, k) == LET Keep(e) == e.key # k IN SelectSeq(m, Keep)

\* new Map(candidateArticles.map(a => [a.id, a]))
RECURSIVE newArticleMap(_)
newArticleMap(candidates) ==
  IF candidates = <<>> THEN <<>>
  ELSE LET a == candidates[Len(candidates)]
       IN  mapSet(newArticleMap(SubSeq(candidates, 1, Len(candidates) - 1)), a.id, a)

\* articleMap.forEach(article => rankedArticles.push(article))
appendRemaining(rankedArticles, articleMap) ==
  rankedArticles \o [i \in 1..Len(articleMap) |-> articleMap[i].value]

\* rankedIds.forEach(id => ...) followed by the append of the remaining articles
RECURSIVE reorder(_, _, _)
reorder(rankedIds, rankedArticles, articleMap) ==
  IF rankedIds = <<>> THEN appendRemaining(rankedArticles, articleMap)
  ELSE IF mapHas(articleMap, Head(rankedIds))
       THEN reorder(Tail(rankedIds),
                    Append(rankedArticles, mapGet(articleMap, Head(rankedIds))),
                    mapDelete(articleMap, Head(rankedIds)))
       ELSE reorder(Tail(rankedIds), rankedArticles, articleMap)

\* llmRerank from "Reorder articles based on LLM ranking" to its return
rerankWith(rankedIds, candidates) == reorder(rankedIds, <<>>, newArticleMap(candidates))

Reverse(s) == [i \in 1..Len(s) |-> s[Len(s) + 1 - i]]

\* the id lists a model answers with: none, all candidates backwards, the last
\* and the first only, and a list with an unknown and a repeated id
RankedIdChoices(candidates) ==
  LET ids == [i \in 1..Len(candidates) |-> candidates[i].id]
      n == Len(ids)
  IN  IF n = 0 THEN { <<>> }
      ELSE { <<>>, Reverse(ids), <<ids[n], ids[1]>>,
             <<ids[n], <<"n","o","-","s","u","c","h","-","i","d">>, ids[1], ids[n]>> }

(***************************************************************************)
(* LLM reranking: the parse of the assistant's text                        *)
(***************************************************************************)
\* a JSON value: its type, the characters of a string or number, the elements
\* of an array or the member values of an object
jsonValue(t, s, items) == [type |-> t, str |-> s, items |-> items]

\* JSON.parse throws
JsonFail == [ok |-> FALSE, val |-> jsonValue("null", <<>>, <<>>), rest |-> <<>>]

jsonParsed(v, rest) == [ok |-> TRUE, val |-> v, rest |-> rest]

\* a JSON string after its opening quote; of the escapes only \" \\ and \/ are
\* read (the texts drawn have no other)
RECURSIVE parseString(_, _)
parseString(s, acc) ==
  IF s = <<>> THEN JsonFail
  ELSE IF Head(s) = "\"" THEN jsonParsed(jsonValue("string", acc, <<>>), Tail(s))
  ELSE IF Head(s) = "\\"
       THEN IF Len(s) >= 2 /\ s[2] \in {"\"", "\\", "/"}
            THEN parseString(SubSeq(s, 3, Len(s)), Append(acc, s[2]))
            ELSE JsonFail
  ELSE parseString(Tail(s), Append(acc, Head(s)))

RECURSIVE takeDigits(_)
takeDigits(s) ==
  IF s # <<>> /\ \E i \in 1..Len(DigitChars) : DigitChars[i] = Head(s)
  THEN <<Head(s)>> \o takeDigits(Tail(s))
  ELSE <<>>

\* a JSON number (an integer)
parseNumber(s) ==
  LET digits == takeDigits(s)
  IN  IF digits = <<>> THEN JsonFail
      ELSE jsonParsed(jsonValue("number", digits, <<>>),
                      SubSeq(s, Len(digits) + 1, Len(s)))

JsonLiterals == { <<"t","r","u","e">>, <<"f","a","l","s","e">>, <<"n","u","l","l">> }

RECURSIVE parseValue(_)
RECURSIVE parseElements(_, _)
RECURSIVE parseMembers(_, _)

\* the elements of an array, s at the start of an element
parseElements(s, acc) ==
  LET r == parseValue(s)
      t == trimStart(r.rest)
  IN  IF ~r.ok \/ t = <<>> THEN JsonFail
      ELSE IF Head(t) = "," THEN parseElements(Tail(t), Append(acc, r.val))
      ELSE IF Head(t) = "]"
           THEN jsonParsed(jsonValue("array", <<>>, Append(acc, r.val)), Tail(t))
      ELSE JsonFail

\* the members of an object, s at the start of a key
parseMembers(s, acc) ==
  LET k == parseValue(s)
      c == trimStart(k.rest)
  IN  IF ~k.ok \/ k.val.type # "string" \/ c = <<>> \/ Head(c) # ":" THEN JsonFail
      ELSE LET r == parseValue(Tail(c))
               t == trimStart(r.rest)
           IN  IF ~r.ok \/ t = <<>> THEN JsonFail
               ELSE IF Head(t) = "," THEN parseMembers(Tail(t), Append(acc, r.val))
               ELSE IF Head(t) = "}"
                    THEN jsonParsed(jsonValue("object", <<>>, Append(acc, r.val)), Tail(t))
               ELSE JsonFail

\* one JSON value at the start of s0
parseValue(s0) ==
  LET s == trimStart(s0)
  IN  IF s = <<>> THEN JsonFail
      ELSE IF Head(s) = "\"" THEN parseString(Tail(s), <<>>)
      ELSE IF Head(s) = "["
           THEN LET t == trimStart(Tail(s))
                IN  IF t # <<>> /\ Head(t) = "]"
                    THEN jsonParsed(jsonValue("array", <<>>, <<>>), Tail(t))
                    ELSE parseElements(Tail(s), <<>>)
      ELSE IF Head(s) = "{"
           THEN LET t == trimStart(Tail(s))
                IN  IF t # <<>> /\ Head(t) = "}"
                    THEN jsonParsed(jsonValue("object", <<>>, <<>>), Tail(t))
                    ELSE parseMembers(Tail(s), <<>>)
      ELSE IF \E l \in JsonLiterals : startsWith(s, l)
           THEN LET l == CHOOSE l \in JsonLiterals : startsWith(s, l)
                IN  jsonParsed(jsonValue("literal", l, <<>>), SubSeq(s, Len(l) + 1, Len(s)))
      ELSE parseNumber(s)

\* JSON.parse: one value and nothing but white space after it
JSONparse(text) ==
  LET r == parseValue(text)
  IN  IF r.ok /\ trimStart(r.rest) = <<>> THEN r ELSE JsonFail

\* llmResponse.match(/\[[\s\S]*\]/): from the first "[" to the last "]" after
\* it; <<>> when there is no match
arrayMatch(text) ==
  LET opens == {i \in 1..Len(text) : text[i] = "["}
  IN  IF opens = {} THEN <<>>
      ELSE LET first == CHOOSE i \in opens : \A k \in opens : i <= k
               closes == {j \in (first + 1)..Len(text) : text[j] = "]"}
           IN  IF closes = {} THEN <<>>
               ELSE SubSeq(text, first, CHOOSE j \in closes : \A k \in closes : k <= j)

\* the text JSON.parse is given: the match when there is one, else the whole
textToParse(llmResponse) ==
  IF arrayMatch(llmResponse) # <<>> THEN arrayMatch(llmResponse) ELSE llmResponse

\* Array.isArray(rankedIds)
isArray(v) == v.type = "array"

\* the elements of rankedIds that can be keys of the Map of candidates: the
\* ids are strings, so forEach finds no entry for an element of another type
IsStringValue(v) == v.type = "string"

stringIds(values) ==
  LET strings == SelectSeq(values, IsStringValue)
  IN  [i \in 1..Len(strings) |-> strings[i].str]

\* a parse that takes a text it cannot read for an empty list of ids
parseRankedIds_lenient(llmResponse) ==
  LET r == JSONparse(textToParse(llmResponse))
  IN  IF ~r.ok \/ ~isArray(r.val) THEN [error |-> "none", ids |-> <<>>]
      ELSE [error |-> "none", ids |-> stringIds(r.val.items)]

\* llmRerank from "Parse the JSON array of IDs" to the Array.isArray test:
\* the error thrown ("none" if none) and rankedIds
parseRankedIds(llmResponse) ==
  LET r == JSONparse(textToParse(llmResponse))
  IN  IF ~r.ok THEN [error |-> "unparsable", ids |-> <<>>]
      ELSE IF ~isArray(r.val) THEN [error |-> "notArray", ids |-> <<>>]
      ELSE [error |-> "none", ids |-> stringIds(r.val.items)]

\* JSON.stringify of a list of ids
RECURSIVE stringifyIds(_)
stringifyIds(ids) ==
  IF ids = <<>> THEN <<>>
  ELSE <<"\"">> \o Head(ids) \o <<"\"">>
       \o (IF Len(ids) > 1 THEN <<",">> ELSE <<>>) \o stringifyIds(Tail(ids))

jsonArrayOf(ids) == <<"[">> \o stringifyIds(ids) \o <<"]">>

\* the texts an assistant answers with: the array of ids alone, the array in
\* a sentence, the array as a member of an object, an array of numbers, an
\* object without array, a string, a number, plain words, a cut off array and
\* an array that is not JSON; the array followed by a remark in brackets
ContentChoices(candidates) ==
  { jsonArrayOf(ids) : ids \in RankedIdChoices(candidates) }
  \cup { jsonArrayOf(ids) \o <<" ","[","m","o","s","t"," ","r","e","l","e","v","a","n","t"," ","f","i","r","s","t","]">> :
            ids \in {Reverse([i \in 1..Len(candidates) |-> candidates[i].id])} }
  \cup { <<" ","H","e","r","e"," ","i","s"," ","t","h","e"," ","r","a","n","k","i","n","g",":"," ">> \o jsonArrayOf(ids) \o <<" ","I"," ","h","o","p","e"," ","i","t"," ","h","e","l","p","s","."," ">> :
            ids \in {Reverse([i \in 1..Len(candidates) |-> candidates[i].id])} }
  \cup { <<"{","\"","r","a","n","k","i","n","g","\"",":">> \o jsonArrayOf(ids) \o <<"}">> :
            ids \in {Reverse([i \in 1..Len(candidates) |-> candidates[i].id])} }
  \cup { <<"[","2",","," ","1","]">>, <<"{","\"","r","a","n","k","i","n","g","\"",":"," ","1","}">>, <<"\"","n","o","n","e","\"">>, <<"4","2">>, <<"I"," ","c","a","n","n","o","t"," ","r","a","n","k"," ","t","h","e","s","e">>,
          <<"[","\"","1","\"",",">>, <<"[","1"," ","2","]">> }

\* what response.json() resolves with: no choices[0].message, a message with
\* no content, a message with content
ResponseBodies(candidates) ==
  { [kind |-> k, content |-> <<>>] : k \in {"noMessage", "noContent"} }
  \cup { [kind |-> "content", content |-> c] : c \in ContentChoices(candidates) }

(***************************************************************************)
(* One invocation of the search                                            *)
(***************************************************************************)
VARIABLES
  query,              \* the query passed in
  articles,           \* the caller's guide collection
  settings,           \* the settings passed in
  called,             \* the entry point called: "none", "search", "searchArticles"
  pc,                 \* "idle", "awaitFetch", "awaitBody", "done"
  keywordResults,     \* const keywordResults of searchArticles
  candidateArticles,  \* const candidateArticles of llmRerank
  outcome,            \* "pending", "returned", "thrown"
  result,             \* the list returned
  rerank,             \* llmRerank: "notRun", "pending", "succeeded", "failed"
  rerankError,        \* the error llmRerank threw, "none" if none
  response,           \* the data response.json() resolved with
  llmResults,         \* const llmResults of searchArticles
  prompt,             \* what the request of llmRerank describes
  requests,           \* the number of fetch calls made
  lateResponses,      \* the responses that reached the request after its abort
  timerArmed,         \* the timeout of llmRerank is set and not cleared
  aborted,            \* controller.signal.aborted
  clock,              \* milliseconds since the fetch was issued
  suspended,          \* the invocations that wait while this one runs
  stored,             \* the articles key of chrome.storage.local
  storedBefore,       \* stored as the last operation on it found it
  returned,           \* the last operation on the store and what it returned
  uuids,              \* the number of ids generateUUID has given out
  tasks,              \* the calls on the store that are in flight, by context
  started,            \* the number of calls on the store made so far
  totalSteps,         \* popup: the steps of currentSelectedArticle, 0 for none
  currentStepIndex,   \* popup: let currentStepIndex
  completionState,    \* popup: articleCompletionStates[article.id]
  view,               \* popup: what viewerContent and the modal show
  handlers,           \* popup: the async handlers waiting at an await
  displayed,          \* popup: the list displayResults was last given
  lastQuery,          \* popup: the query of the last search submitted
  form,               \* options page: the values of the settings form
  saveBtnDisabled,    \* options page: saveBtn.disabled
  saves,              \* options page: the handleSaveSettings calls in flight
  status              \* options page: the kind of the last showStatus

searchVars ==
  <<query, articles, settings, called, pc, keywordResults, candidateArticles,
    outcome, result, rerank, rerankError, response, llmResults, requests,
    timerArmed, aborted, clock, prompt, lateResponses, suspended>>

storage == <<stored, storedBefore, returned, uuids, tasks, started>>

popup ==
  <<totalSteps, currentStepIndex, completionState, view, handlers, displayed,
    lastQuery>>

options == <<form, saveBtnDisabled, saves, status>>

vars == <<searchVars, storage, popup, options>>

inputs == <<query, articles, settings>>

NoResponse == [kind |-> "none", content |-> <<>>]

\* no request has been built
NoPrompt == [query |-> <<>>, articleData |-> <<>>]

\* no value: null
Null == [id |-> <<>>, title |-> <<>>]

NoReturn == [op |-> "none", value |-> Null]

\* the store has not been touched
StoreIdle ==
  /\ stored = <<>>
  /\ storedBefore = <<>>
  /\ returned = NoReturn
  /\ uuids = 0
  /\ tasks = <<>>
  /\ started = 0

\* { completedStepIndexes: [] }: what getCompletionState gives for an article
\* with no entry
NoCompletion == [completedStepIndexes |-> {}, completedAt |-> FALSE]

\* the viewer with no article selected
NoView ==
  [shows |-> "none", backDisabled |-> FALSE, resetShown |-> FALSE,
   modal |-> FALSE]

\* the settings form as the options page loads it from the default settings
DefaultForm ==
  [repoSourceType |-> "url", repoUrl |-> <<>>, azureApiBaseUrl |-> <<>>,
   azurePat |-> <<>>, enableLLMSearch |-> FALSE, llmEndpoint |-> <<>>,
   llmApiKey |-> <<>>]

\* the popup shows no article and has displayed the list it is given, no
\* handler of it waits, the options page is at rest
UiIdle(list) ==
  /\ totalSteps = 0
  /\ currentStepIndex = 0
  /\ completionState = NoCompletion
  /\ view = NoView
  /\ handlers = <<>>
  /\ lastQuery = <<>>
  /\ displayed = list
  /\ form = DefaultForm
  /\ saveBtnDisabled = FALSE
  /\ saves = <<>>
  /\ status = "none"

\* nothing has been called
Idle ==
  /\ called = "none"
  /\ pc = "idle"
  /\ keywordResults = <<>>
  /\ candidateArticles = <<>>
  /\ outcome = "pending"
  /\ result = <<>>
  /\ rerank = "notRun"
  /\ rerankError = "none"
  /\ response = NoResponse
  /\ llmResults = <<>>
  /\ requests = 0
  /\ timerArmed = FALSE
  /\ aborted = FALSE
  /\ clock = 0
  /\ prompt = NoPrompt
  /\ lateResponses = 0

Init ==
  /\ query \in Queries
  /\ articles \in Collections
  /\ settings \in SettingsChoices
  /\ suspended = <<>>
  /\ Idle
  /\ StoreIdle
  /\ UiIdle(<<>>)

\* a return of list from the entry point
Return(list) ==
  /\ pc' = "done"
  /\ outcome' = "returned"
  /\ result' = list

\* a keywordSearch that filters and sorts the array it was given
callerArticles_sortedInPlace(q, as) == IF IsBlank(q) THEN as ELSE keywordSearch(q, as)

\* the caller's array after searchArticles or search has run on it:
\* keywordSearch reads it with forEach and pushes into results, an array of
\* its own, which is what it sorts; llmRerank takes a slice of the ranked list
callerArticles(q, as) == as

\* a request that carries the whole guide, steps included
articleData_whole(candidates) ==
  [i \in 1..Len(candidates) |->
     [id |-> candidates[i].id, title |-> candidates[i].title,
      summary |-> candidates[i].summary, tags |-> candidates[i].tags,
      steps |-> candidates[i].steps]]

\* const articleData = candidateArticles.map(article => ({id, title, summary, tags}))
articleData(candidates) ==
  [i \in 1..Len(candidates) |->
     [id |-> candidates[i].id, title |-> candidates[i].title,
      summary |-> candidates[i].summary, tags |-> candidates[i].tags]]

\* settings.enableLLMSearch && settings.llmEndpoint && settings.llmApiKey
rerankConfigured(s) == s.enableLLMSearch /\ s.llmEndpoint # "" /\ s.llmApiKey # ""

nothingToRerank_never(as) == FALSE

\* llmRerank: if (!articles || articles.length === 0) return []
nothingToRerank(as) == as = <<>>

\* the value searchArticles returns for a blank query
blankSearchResult(as) == as

\* a catch block that returns the whole keyword-ranked list
catchRerankError_untruncated(error) ==
  /\ rerank' = "failed"
  /\ requests' = requests
  /\ rerankError' = error
  /\ Return(keywordResults)

\* no catch block: the error of llmRerank leaves searchArticles
catchRerankError_rethrow(error) ==
  /\ rerank' = "failed"
  /\ requests' = requests
  /\ rerankError' = error
  /\ pc' = "done"
  /\ outcome' = "thrown"
  /\ result' = result

\* a catch block that sends the request once more before it gives up
catchRerankError_retry(error) ==
  IF requests < 2
  THEN /\ rerank' = "pending"
       /\ rerankError' = error
       /\ requests' = requests + 1
       /\ pc' = "awaitFetch"
       /\ UNCHANGED <<outcome, result>>
  ELSE /\ rerank' = "failed"
       /\ requests' = requests
       /\ rerankError' = error
       /\ Return(slice(keywordResults, TopN))

\* the catch block of searchArticles: the error is logged and dropped
catchRerankError(error) ==
  /\ rerank' = "failed"
  /\ requests' = requests
  /\ rerankError' = error
  /\ Return(slice(keywordResults, TopN))

\* Search.search (the legacy entry point): keywordSearch and nothing else
search ==
  /\ pc = "idle"
  /\ called' = "search"
  /\ keywordResults' = keywordSearch(query, articles)
  /\ Return(keywordResults')
  /\ articles' = callerArticles(query, articles)
  /\ UNCHANGED <<query, settings, candidateArticles, prompt, rerank, rerankError,
                 response, llmResults, requests, timerArmed, aborted, clock,
                 lateResponses, suspended, storage, popup, options>>

\* Search.searchArticles up to its return or to the fetch of llmRerank
searchArticles ==
  /\ pc = "idle"
  /\ called' = "searchArticles"
  /\ articles' = callerArticles(query, articles)
  /\ UNCHANGED <<query, settings, rerankError, response, aborted, clock,
                 lateResponses, suspended, storage, popup, options>>
  /\ IF IsBlank(query)
     THEN /\ Return(blankSearchResult(articles))
          /\ UNCHANGED <<keywordResults, candidateArticles, prompt, rerank,
                         llmResults, requests, timerArmed>>
     ELSE IF articles = <<>>
     THEN /\ Return(<<>>)
          /\ UNCHANGED <<keywordResults, candidateArticles, prompt, rerank,
                         llmResults, requests, timerArmed>>
     ELSE /\ keywordResults' = keywordSearch(query, articles)
          /\ IF ~rerankConfigured(settings)
             THEN /\ Return(slice(keywordResults', TopN))
                  /\ UNCHANGED <<candidateArticles, prompt, rerank, llmResults,
                                 requests, timerArmed>>
             ELSE IF nothingToRerank(keywordResults')
             THEN /\ rerank' = "succeeded"
                  /\ llmResults' = <<>>
                  /\ Return(slice(llmResults', TopN))
                  /\ UNCHANGED <<candidateArticles, prompt, requests, timerArmed>>
             ELSE /\ rerank' = "pending"
                  /\ candidateArticles' = slice(keywordResults', MaxCandidates)
                  /\ prompt' = [query |-> query,
                                articleData |-> articleData(candidateArticles')]
                  /\ timerArmed' = TRUE
                  /\ requests' = requests + 1
                  /\ pc' = "awaitFetch"
                  /\ UNCHANGED <<outcome, result, llmResults>>

\* time passes while the invocation is suspended
Tick ==
  /\ pc \in {"awaitFetch", "awaitBody"}
  /\ clock < LLM_TIMEOUT_MS
  /\ clock' = clock + TickMs
  /\ UNCHANGED <<inputs, called, pc, keywordResults, candidateArticles, prompt,
                 outcome, result, rerank, rerankError, response, llmResults,
                 requests, timerArmed, aborted, lateResponses, suspended,
                 storage, popup, options>>

\* the callback of setTimeout: controller.abort()
TimerFire ==
  /\ timerArmed
  /\ clock >= LLM_TIMEOUT_MS
  /\ aborted' = TRUE
  /\ timerArmed' = FALSE
  /\ UNCHANGED <<inputs, called, pc, keywordResults, candidateArticles, prompt,
                 outcome, result, rerank, rerankError, response, llmResults,
                 requests, clock, lateResponses, suspended,
                 storage, popup, options>>

\* fetch resolves with a response: clearTimeout, then the status is looked at
FetchResolve(ok) ==
  /\ pc = "awaitFetch"
  /\ ~aborted
  /\ timerArmed' = FALSE
  /\ IF ok
     THEN /\ pc' = "awaitBody"
          /\ UNCHANGED <<outcome, result, rerank, rerankError, requests>>
     ELSE catchRerankError("status")
  /\ UNCHANGED <<inputs, called, keywordResults, candidateArticles, prompt,
                 response, llmResults, aborted, clock, lateResponses, suspended,
                 storage, popup, options>>

\* fetch rejects with a network error: the catch of llmRerank clears the
\* timeout and rethrows
FetchReject ==
  /\ pc = "awaitFetch"
  /\ ~aborted
  /\ timerArmed' = FALSE
  /\ catchRerankError("network")
  /\ UNCHANGED <<inputs, called, keywordResults, candidateArticles, prompt,
                 response, llmResults, aborted, clock, lateResponses, suspended,
                 storage, popup, options>>

\* fetch rejects with an AbortError after controller.abort()
FetchAbort ==
  /\ pc = "awaitFetch"
  /\ aborted
  /\ timerArmed' = FALSE
  /\ catchRerankError("timeout")
  /\ UNCHANGED <<inputs, called, keywordResults, candidateArticles, prompt,
                 response, llmResults, aborted, clock, lateResponses, suspended,
                 storage, popup, options>>

\* response.json() resolves with data: the content is parsed and the
\* candidates are reordered
BodyResolve(data) ==
  /\ pc = "awaitBody"
  /\ response' = data
  /\ IF data.kind # "content"
     THEN /\ catchRerankError(data.kind)
          /\ UNCHANGED llmResults
     ELSE LET parsed == parseRankedIds(trim(data.content))
          IN  IF parsed.error # "none"
              THEN /\ catchRerankError(parsed.error)
                   /\ UNCHANGED llmResults
              ELSE /\ rerank' = "succeeded"
                   /\ llmResults' = rerankWith(parsed.ids, candidateArticles)
                   /\ Return(slice(llmResults', TopN))
                   /\ UNCHANGED <<rerankError, requests>>
  /\ UNCHANGED <<inputs, called, keywordResults, candidateArticles, prompt,
                 timerArmed, aborted, clock, lateResponses, suspended,
                 storage, popup, options>>

\* response.json() rejects: the body is not JSON or the connection broke
BodyReject ==
  /\ pc = "awaitBody"
  /\ catchRerankError("body")
  /\ UNCHANGED <<inputs, called, keywordResults, candidateArticles, prompt,
                 response, llmResults, timerArmed, aborted, clock, lateResponses, suspended,
                 storage, popup, options>>

\* a late response that replaces the list already returned
settledFetchIgnores_overwrites ==
  /\ rerank' = "succeeded"
  /\ llmResults' = Reverse(candidateArticles)
  /\ result' = slice(llmResults', TopN)
  /\ UNCHANGED <<pc, outcome, rerankError, response>>

\* the promise of fetch rejected when the controller aborted, and a settled
\* promise settles no more: nothing awaits what arrives now
settledFetchIgnores ==
  UNCHANGED <<pc, outcome, result, rerank, rerankError, response, llmResults>>

\* the remote service answers a request that was aborted at the deadline
LateResponse ==
  /\ requests > 0
  /\ aborted
  /\ pc = "done"
  /\ lateResponses < MaxLateResponses
  /\ lateResponses' = lateResponses + 1
  /\ settledFetchIgnores
  /\ UNCHANGED <<inputs, called, keywordResults, candidateArticles, prompt,
                 requests, timerArmed, aborted, clock, suspended,
                 storage, popup, options>>

Next ==
  \/ searchArticles
  \/ LateResponse
  \/ Tick
  \/ TimerFire
  \/ \E ok \in BOOLEAN : FetchResolve(ok)
  \/ FetchReject
  \/ FetchAbort
  \/ \E data \in ResponseBodies(candidateArticles) : BodyResolve(data)
  \/ BodyReject

Spec == Init /\ [][Next]_vars

\* the keyword ranker alone: Search.search applied to a query and a collection
DefaultSettings == [enableLLMSearch |-> FALSE, llmEndpoint |-> "", llmApiKey |-> ""]

InitRank ==
  /\ query \in RankQueries
  /\ articles \in RankCollections
  /\ settings = DefaultSettings
  /\ suspended = <<>>
  /\ Idle
  /\ StoreIdle
  /\ UiIdle(<<>>)

NextRank == search

RankSpec == InitRank /\ [][NextRank]_vars

\* time passes, a due timer callback runs and an aborted fetch rejects; the
\* remote service owes no answer
LiveSpec ==
  Spec /\ WF_vars(Tick) /\ WF_vars(TimerFire) /\ WF_vars(FetchAbort)

(***************************************************************************)
(* Concurrent invocations                                                  *)
(***************************************************************************)
\* everything an invocation of searchArticles holds: its arguments, its
\* consts and lets, its controller and timer, the promise it awaits
context ==
  [query |-> query, articles |-> articles, settings |-> settings,
   called |-> called, pc |-> pc, keywordResults |-> keywordResults,
   candidateArticles |-> candidateArticles, outcome |-> outcome,
   result |-> result, rerank |-> rerank, rerankError |-> rerankError,
   response |-> response, llmResults |-> llmResults, requests |-> requests,
   timerArmed |-> timerArmed, aborted |-> aborted, clock |-> clock,
   prompt |-> prompt, lateResponses |-> lateResponses]

\* an invocation that has not started
newInvocation(q, as, s) ==
  [query |-> q, articles |-> as, settings |-> s,
   called |-> "none", pc |-> "idle", keywordResults |-> <<>>,
   candidateArticles |-> <<>>, outcome |-> "pending",
   result |-> <<>>, rerank |-> "notRun", rerankError |-> "none",
   response |-> NoResponse, llmResults |-> <<>>, requests |-> 0,
   timerArmed |-> FALSE, aborted |-> FALSE, clock |-> 0,
   prompt |-> NoPrompt, lateResponses |-> 0]

\* one controller kept outside the function and used by every invocation
controllerOf_shared(c) == aborted

\* const controller = new AbortController(), inside llmRerank: the signal an
\* invocation looks at is the one of its own controller
controllerOf(c) == c.aborted

\* the event loop goes on with invocation c where it was suspended
resume(c) ==
  /\ query' = c.query
  /\ articles' = c.articles
  /\ settings' = c.settings
  /\ called' = c.called
  /\ pc' = c.pc
  /\ keywordResults' = c.keywordResults
  /\ candidateArticles' = c.candidateArticles
  /\ outcome' = c.outcome
  /\ result' = c.result
  /\ rerank' = c.rerank
  /\ rerankError' = c.rerankError
  /\ response' = c.response
  /\ llmResults' = c.llmResults
  /\ requests' = c.requests
  /\ timerArmed' = c.timerArmed
  /\ aborted' = controllerOf(c)
  /\ clock' = c.clock
  /\ prompt' = c.prompt
  /\ lateResponses' = c.lateResponses

\* the invocation that ran has returned or is at an await: the event loop
\* turns to the k-th of the others
Switch(k) ==
  /\ suspended' = [suspended EXCEPT ![k] = context]
  /\ resume(suspended[k])
  /\ UNCHANGED <<storage, popup, options>>

\* the most invocations of searchArticles in progress at a time
MaxConcurrent == 2

ConcQueries == { <<"p","a","s","s","w","o","r","d">>, <<"V","P","N"," ">> }

\* the collection each concurrent invocation is given
ConcArticles ==
  <<[ref |-> 1, id |-> decimal(1), title |-> <<"V","P","N"," ","p","a","s","s","w","o","r","d">>,
     tags |-> <<<<"v","p","n">>>>, summary |-> <<>>, steps |-> <<>>],
    [ref |-> 2, id |-> decimal(2), title |-> <<"P","a","s","s","w","o","r","d">>,
     tags |-> <<>>, summary |-> <<"S","e","t"," ","u","p"," ","t","h","e"," ","V","P","N">>,
     steps |-> <<[title |-> <<"S","i","g","n"," ","i","n">>, bodyHtml |-> <<"<","p",">","v","p","n","<","/","p",">">>]>>]>>

ConcSettings ==
  { DefaultSettings,
    [enableLLMSearch |-> TRUE, llmEndpoint |-> "https://llm.example/v1/chat/completions",
     llmApiKey |-> "sk-key"] }

\* what the remote service may answer a concurrent invocation with
ConcBodies(candidates) ==
  { [kind |-> "content",
     content |-> jsonArrayOf(Reverse([i \in 1..Len(candidates) |-> candidates[i].id]))],
    [kind |-> "content", content |-> <<"I"," ","c","a","n","n","o","t"," ","r","a","n","k"," ","t","h","e","s","e">>] }

NewInvocations ==
  {newInvocation(q, ConcArticles, s) : q \in ConcQueries, s \in ConcSettings}

InitConc ==
  /\ query \in ConcQueries
  /\ articles = ConcArticles
  /\ settings \in ConcSettings
  /\ suspended \in [1..(MaxConcurrent - 1) -> NewInvocations]
  /\ Idle
  /\ StoreIdle
  /\ UiIdle(<<>>)

NextConc ==
  \/ searchArticles
  \/ Tick
  \/ TimerFire
  \/ \E ok \in BOOLEAN : FetchResolve(ok)
  \/ FetchReject
  \/ FetchAbort
  \/ \E data \in ConcBodies(candidateArticles) : BodyResolve(data)
  \/ BodyReject
  \/ \E k \in 1..Len(suspended) : Switch(k)

\* several invocations of searchArticles in progress, their steps interleaved
ConcSpec == InitConc /\ [][NextConc]_vars

(***************************************************************************)
(* The article store                                                       *)
(***************************************************************************)
\* the most articles the store is filled with
MaxStored == 3

\* the ids and titles of the articles passed to upsertArticle; the empty
\* string is a field that is missing
ArticleIds == { <<>>, <<"a">>, <<"b">> }

ArticleTitles == { <<>>, <<"V","P","N">>, <<"P","r","i","n","t","e","r">> }

ArticleInputs == [id : ArticleIds, title : ArticleTitles]

\* Storage.getArticles: the collection, or [] when the read fails
getArticles(readOk) == IF readOk THEN stored ELSE <<>>

\* Storage.setArticles: what chrome.storage.local holds after the call; a
\* failed write is caught and logged, the caller is told false
setArticles(as, writeOk) == IF writeOk THEN as ELSE stored

\* Articles.generateUUID: an id given to nothing before
generateUUID(n) == <<"u">> \o decimal(n + 1)

\* articles.findIndex(a => a.id === id), 0 for -1
findIndex(as, id) ==
  IF \E i \in 1..Len(as) : as[i].id = id
  THEN CHOOSE i \in 1..Len(as) :
         as[i].id = id /\ \A j \in 1..(i - 1) : as[j].id # id
  ELSE 0

\* Articles.upsertArticle
upsertArticle(article, readOk, writeOk) ==
  /\ storedBefore' = stored
  /\ LET as == getArticles(readOk)
         existingIndex == findIndex(as, article.id)
         newArticle == [id |-> IF article.id # <<>> THEN article.id
                               ELSE generateUUID(uuids),
                        title |-> article.title]
         updated == IF existingIndex # 0
                    THEN [as EXCEPT ![existingIndex] = article]
                    ELSE Append(as, newArticle)
     IN  /\ Len(updated) <= MaxStored
         /\ (existingIndex = 0 /\ article.id = <<>>) => uuids < MaxStored
         /\ IF article.title = <<>>
            THEN /\ returned' = [op |-> "upsertArticle", value |-> Null]
                 /\ UNCHANGED <<stored, uuids>>
            ELSE /\ stored' = setArticles(updated, writeOk)
                 /\ uuids' = IF existingIndex = 0 /\ article.id = <<>>
                             THEN uuids + 1 ELSE uuids
                 /\ returned' = [op |-> "upsertArticle",
                                 value |-> IF existingIndex # 0
                                           THEN updated[existingIndex]
                                           ELSE updated[Len(updated)]]
  /\ UNCHANGED <<tasks, started, searchVars, popup, options>>

\* Articles.deleteArticle
deleteArticle(id, readOk, writeOk) ==
  /\ storedBefore' = stored
  /\ LET as == getArticles(readOk)
         filteredArticles == SelectSeq(as, LAMBDA a : a.id # id)
     IN  IF Len(filteredArticles) = Len(as)
         THEN /\ returned' = [op |-> "deleteArticle", value |-> FALSE]
              /\ UNCHANGED stored
         ELSE /\ stored' = setArticles(filteredArticles, writeOk)
              /\ returned' = [op |-> "deleteArticle", value |-> TRUE]
  /\ UNCHANGED <<uuids, tasks, started, searchVars, popup, options>>

\* the ids deleteArticle is called with: the ones given, a generated one
DeleteIds == (ArticleIds \ { <<>> }) \cup { generateUUID(0) }

InitStore ==
  /\ query = <<>>
  /\ articles = <<>>
  /\ settings = DefaultSettings
  /\ suspended = <<>>
  /\ Idle
  /\ StoreIdle
  /\ UiIdle(<<>>)

NextStore ==
  \/ \E article \in ArticleInputs, readOk, writeOk \in BOOLEAN :
       upsertArticle(article, readOk, writeOk)
  \/ \E id \in DeleteIds, readOk, writeOk \in BOOLEAN :
       deleteArticle(id, readOk, writeOk)

\* the operations of Articles on the stored collection
StoreSpec == InitStore /\ [][NextStore]_vars

(***************************************************************************)
(* The store operations as the pages and the service worker run them: each *)
(* call runs up to its next await on chrome.storage.local, and the calls   *)
(* of the other contexts run in between.  Reads and writes succeed here;   *)
(* StoreSpec has the ones that fail.                                       *)
(***************************************************************************)
\* the most calls in flight at a time
MaxTasks == 2

\* the most calls made in a behaviour
MaxCalls == 3

\* the articles createDummyArticles returns
DummyCount == 2

\* a context with no call in flight
NoTask ==
  [op |-> "none", pc |-> "idle", articles |-> <<>>, pending |-> <<>>,
   saved |-> <<>>, id |-> <<>>, value |-> "none"]

\* a call can be made in context t
canCall(t) ==
  /\ tasks[t].pc \in {"idle", "done"}
  /\ started < MaxCalls

\* what the caller of upsertArticle does with what it returned: the caller
\* of the page takes it, importArticleFile reports on it, the loop of
\* loadDummyArticlesIfNeeded goes on to the next article whatever it is
afterUpsert(t, savedArticle) ==
  LET rest == Tail(tasks[t].pending)
      task == [tasks[t] EXCEPT
                 !.pending = rest,
                 !.saved = IF savedArticle = Null THEN @
                           ELSE Append(@, savedArticle)]
  IN  CASE tasks[t].op = "upsertArticle" ->
             [task EXCEPT !.pc = "done",
                          !.value = IF savedArticle = Null THEN "null"
                                    ELSE "article"]
        [] tasks[t].op = "importArticleFile" ->
             [task EXCEPT !.pc = "done",
                          !.value = IF savedArticle = Null THEN "failure"
                                    ELSE "success"]
        [] OTHER ->
             IF rest = <<>>
             THEN [task EXCEPT !.pc = "done", !.value = "loaded"]
             ELSE [task EXCEPT !.pc = "upsertGet"]

\* a page calls Articles.upsertArticle(article)
upsertArticleCall(t, article) ==
  /\ canCall(t)
  /\ tasks' = [tasks EXCEPT ![t] = [NoTask EXCEPT !.op = "upsertArticle",
                                                  !.pc = "upsertGet",
                                                  !.pending = <<article>>]]
  /\ started' = started + 1
  /\ UNCHANGED <<stored, storedBefore, returned, uuids,
                 searchVars, popup, options>>

\* Articles.upsertArticle from await Storage.getArticles() to the call of
\* Storage.setArticles
upsertArticleRead(t) ==
  /\ tasks[t].pc = "upsertGet"
  /\ LET article == Head(tasks[t].pending)
         as == stored
         existingIndex == findIndex(as, article.id)
         newArticle == [id |-> IF article.id # <<>> THEN article.id
                               ELSE generateUUID(uuids),
                        title |-> article.title,
                        source |-> IF article.source # "" THEN article.source
                                   ELSE "uploaded"]
     IN  IF article.title = <<>>
         THEN /\ tasks' = [tasks EXCEPT ![t] = afterUpsert(t, Null)]
              /\ UNCHANGED uuids
         ELSE /\ tasks' =
                   [tasks EXCEPT ![t] =
                      [@ EXCEPT
                         !.pc = "upsertSet",
                         !.articles =
                            IF existingIndex # 0
                            THEN [as EXCEPT ![existingIndex] = article]
                            ELSE Append(as, newArticle),
                         !.pending =
                            <<IF existingIndex # 0 THEN article
                              ELSE newArticle>> \o Tail(@)]]
              /\ uuids' = IF existingIndex = 0 /\ article.id = <<>>
                          THEN uuids + 1 ELSE uuids
  /\ UNCHANGED <<stored, storedBefore, returned, started,
                 searchVars, popup, options>>

\* Articles.upsertArticle from the write of Storage.setArticles to its
\* return
upsertArticleWrite(t) ==
  /\ tasks[t].pc = "upsertSet"
  /\ stored' = tasks[t].articles
  /\ tasks' = [tasks EXCEPT ![t] = afterUpsert(t, Head(tasks[t].pending))]
  /\ UNCHANGED <<storedBefore, returned, uuids, started,
                 searchVars, popup, options>>

\* a page calls Articles.deleteArticle(id)
deleteArticleCall(t, id) ==
  /\ canCall(t)
  /\ tasks' = [tasks EXCEPT ![t] = [NoTask EXCEPT !.op = "deleteArticle",
                                                  !.pc = "deleteGet",
                                                  !.id = id]]
  /\ started' = started + 1
  /\ UNCHANGED <<stored, storedBefore, returned, uuids,
                 searchVars, popup, options>>

\* Articles.deleteArticle from await Storage.getArticles() on
deleteArticleRead(t) ==
  /\ tasks[t].pc = "deleteGet"
  /\ LET as == stored
         filteredArticles == SelectSeq(as, LAMBDA a : a.id # tasks[t].id)
     IN  tasks' = [tasks EXCEPT ![t] =
                     IF Len(filteredArticles) = Len(as)
                     THEN [tasks[t] EXCEPT !.pc = "done", !.value = "false"]
                     ELSE [@ EXCEPT !.pc = "deleteSet",
                                    !.articles = filteredArticles]]
  /\ UNCHANGED <<stored, storedBefore, returned, uuids, started,
                 searchVars, popup, options>>

\* Articles.deleteArticle from the write of Storage.setArticles on
deleteArticleWrite(t) ==
  /\ tasks[t].pc = "deleteSet"
  /\ stored' = tasks[t].articles
  /\ tasks' = [tasks EXCEPT ![t].pc = "done", ![t].value = "true"]
  /\ UNCHANGED <<storedBefore, returned, uuids, started,
                 searchVars, popup, options>>

\* Articles.createDummyArticles: each article gets an id of its own from
\* generateUUID, n ids have been given out before
createDummyArticles(n) ==
  [i \in 1..DummyCount |->
     [id |-> generateUUID(n + i - 1),
      title |-> <<"D">> \o decimal(i),
      source |-> "dummy"]]

\* a page calls Articles.loadDummyArticlesIfNeeded(); enableDummyArticles is
\* what Storage.getSettings gives it
loadDummyArticlesIfNeeded(t, enableDummyArticles) ==
  /\ canCall(t)
  /\ tasks' = [tasks EXCEPT ![t] =
                 IF ~enableDummyArticles
                 THEN [NoTask EXCEPT !.op = "loadDummyArticlesIfNeeded",
                                     !.pc = "done", !.value = "disabled"]
                 ELSE [NoTask EXCEPT !.op = "loadDummyArticlesIfNeeded",
                                     !.pc = "dummyGet"]]
  /\ started' = started + 1
  /\ UNCHANGED <<stored, storedBefore, returned, uuids,
                 searchVars, popup, options>>

\* Articles.loadDummyArticlesIfNeeded from await Storage.getArticles() to
\* the first upsertArticle of its loop
loadDummyArticlesRead(t) ==
  /\ tasks[t].pc = "dummyGet"
  /\ LET as == stored
         hasDummyArticles == \E i \in 1..Len(as) : as[i].source = "dummy"
     IN  IF hasDummyArticles
         THEN /\ tasks' = [tasks EXCEPT ![t].pc = "done", ![t].value = "already-loaded"]
              /\ UNCHANGED uuids
         ELSE /\ tasks' = [tasks EXCEPT ![t] =
                             [@ EXCEPT !.pc = "upsertGet",
                                       !.pending = createDummyArticles(uuids)]]
              /\ uuids' = uuids + DummyCount
  /\ UNCHANGED <<stored, storedBefore, returned, started,
                 searchVars, popup, options>>

\* the files importArticleFile is given: the type of the file, whether its
\* parser finds an article in it, the id the file gives the article
ImportFiles ==
  { [type |-> "json", parses |-> TRUE, id |-> <<"a">>],
    [type |-> "md", parses |-> TRUE, id |-> <<>>],
    [type |-> "txt", parses |-> FALSE, id |-> <<>>],
    [type |-> "exe", parses |-> FALSE, id |-> <<>>] }

\* the options page calls Articles.importArticleFile(file)
importArticleFile(t, file) ==
  /\ canCall(t)
  /\ IF file.type \notin {"json", "md", "txt", "html"} \/ ~file.parses
     THEN /\ tasks' = [tasks EXCEPT ![t] =
                         [NoTask EXCEPT !.op = "importArticleFile",
                                        !.pc = "done", !.value = "failure"]]
          /\ UNCHANGED uuids
     ELSE /\ tasks' = [tasks EXCEPT ![t] =
                         [NoTask EXCEPT
                            !.op = "importArticleFile",
                            !.pc = "upsertGet",
                            !.pending =
                               <<[id |-> IF file.id # <<>> THEN file.id
                                         ELSE generateUUID(uuids),
                                  title |-> <<"I">>,
                                  source |-> "uploaded"]>>]]
          /\ uuids' = IF file.id # <<>> THEN uuids ELSE uuids + 1
  /\ started' = started + 1
  /\ UNCHANGED <<stored, storedBefore, returned, searchVars, popup, options>>

\* validateArticle of the service worker: a title, and steps that are a
\* non-empty array of well-formed steps
validateArticle(article) ==
  /\ article.title # <<>>
  /\ article.stepsOk

\* what a repository answers the sync with: the configured kind of source,
\* whether the fetch succeeds, the articles of the file
RepoAnswers ==
  { [type |-> "none", fetched |-> TRUE, articles |-> <<>>],
    [type |-> "url", fetched |-> FALSE, articles |-> <<>>],
    [type |-> "azure", fetched |-> TRUE, articles |-> <<>>],
    [type |-> "url", fetched |-> TRUE,
     articles |-> <<[id |-> <<"r">>, title |-> <<>>, stepsOk |-> TRUE]>>],
    [type |-> "url", fetched |-> TRUE,
     articles |-> <<[id |-> <<"a">>, title |-> <<"R">>, stepsOk |-> TRUE],
                    [id |-> <<"r">>, title |-> <<"R">>, stepsOk |-> FALSE]>>],
    [type |-> "azure", fetched |-> TRUE,
     articles |-> <<[id |-> <<>>, title |-> <<"R">>, stepsOk |-> TRUE]>>],
    [type |-> "url", fetched |-> TRUE,
     articles |-> <<[id |-> <<"r">>, title |-> <<"R">>, stepsOk |-> TRUE],
                    [id |-> <<"r">>, title |-> <<"S">>, stepsOk |-> TRUE]>>] }

\* the loop of syncFromRepo over the fetched articles: the valid ones, each
\* with its id or a generated one and the source 'repo'
RECURSIVE validArticles(_, _)
validArticles(fetched, n) ==
  IF fetched = <<>> THEN <<>>
  ELSE LET article == Head(fetched)
       IN  IF ~validateArticle(article)
           THEN validArticles(Tail(fetched), n)
           ELSE <<[id |-> IF article.id # <<>> THEN article.id
                          ELSE generateUUID(n),
                   title |-> article.title,
                   source |-> "repo"]>>
                \o validArticles(Tail(fetched),
                                 IF article.id # <<>> THEN n ELSE n + 1)

\* existing.filter(a => a.source !== 'repo')
nonRepoArticles(as) == SelectSeq(as, LAMBDA a : a.source # "repo")

\* the service worker runs syncFromRepo(settings) up to its read of the
\* stored articles
syncFromRepo(t, repo) ==
  /\ canCall(t)
  /\ LET valid == validArticles(repo.articles, uuids)
         generatedIds ==
           Len(SelectSeq(repo.articles,
                         LAMBDA a : validateArticle(a) /\ a.id = <<>>))
     IN  IF \/ repo.type \notin {"url", "azure"}
            \/ ~repo.fetched
            \/ repo.articles = <<>>
            \/ valid = <<>>
         THEN /\ tasks' = [tasks EXCEPT ![t] =
                             [NoTask EXCEPT !.op = "syncFromRepo",
                                            !.pc = "done",
                                            !.value = "failure"]]
              /\ UNCHANGED uuids
         ELSE /\ tasks' = [tasks EXCEPT ![t] =
                             [NoTask EXCEPT !.op = "syncFromRepo",
                                            !.pc = "syncGet",
                                            !.pending = valid]]
              /\ uuids' = uuids + generatedIds
  /\ started' = started + 1
  /\ UNCHANGED <<stored, storedBefore, returned, searchVars, popup, options>>

\* syncFromRepo from await chrome.storage.local.get('articles') to the call
\* of chrome.storage.local.set
syncRead(t) ==
  /\ tasks[t].pc = "syncGet"
  /\ tasks' = [tasks EXCEPT ![t] =
                 [@ EXCEPT !.pc = "syncSet",
                           !.articles = nonRepoArticles(stored)
                                        \o tasks[t].pending]]
  /\ UNCHANGED <<stored, storedBefore, returned, uuids, started,
                 searchVars, popup, options>>

\* syncFromRepo from the write of chrome.storage.local.set to its return
syncWrite(t) ==
  /\ tasks[t].pc = "syncSet"
  /\ stored' = tasks[t].articles
  /\ tasks' = [tasks EXCEPT ![t].pc = "done", ![t].value = "success"]
  /\ UNCHANGED <<storedBefore, returned, uuids, started,
                 searchVars, popup, options>>

\* the articles the pages pass to upsertArticle
UpsertInputs ==
  { [id |-> <<"a">>, title |-> <<"A">>, source |-> ""],
    [id |-> <<"b">>, title |-> <<"B">>, source |-> "uploaded"],
    [id |-> <<>>, title |-> <<"N">>, source |-> ""],
    [id |-> <<"c">>, title |-> <<>>, source |-> ""] }

InitTasks ==
  /\ query = <<>>
  /\ articles = <<>>
  /\ settings = DefaultSettings
  /\ suspended = <<>>
  /\ Idle
  /\ stored = <<>>
  /\ storedBefore = <<>>
  /\ returned = NoReturn
  /\ uuids = 0
  /\ tasks = [t \in 1..MaxTasks |-> NoTask]
  /\ started = 0
  /\ UiIdle(<<>>)

NextTasks ==
  \E t \in 1..MaxTasks :
    \/ \E article \in UpsertInputs : upsertArticleCall(t, article)
    \/ upsertArticleRead(t)
    \/ upsertArticleWrite(t)
    \/ deleteArticleCall(t, <<"a">>)
    \/ deleteArticleRead(t)
    \/ deleteArticleWrite(t)
    \/ \E enableDummyArticles \in BOOLEAN :
         loadDummyArticlesIfNeeded(t, enableDummyArticles)
    \/ loadDummyArticlesRead(t)
    \/ \E file \in ImportFiles : importArticleFile(t, file)
    \/ \E repo \in RepoAnswers : syncFromRepo(t, repo)
    \/ syncRead(t)
    \/ syncWrite(t)

\* the calls of the popup, the options page and the service worker on the
\* stored collection, interleaved at their awaits
TaskSpec == InitTasks /\ [][NextTasks]_vars

(***************************************************************************)
(* Properties                                                              *)
(***************************************************************************)
Range(s) == {s[i] : i \in 1..Len(s)}

\* the score keywordSearch gives guide a for the query of this invocation
scoreOf(a) == calculateRelevanceScore(trim(toLowerCase(query)), tokenize(query), a)

\* the place of guide a in the caller's collection
position(a) == CHOOSE k \in 1..Len(articles) : articles[k] = a

\* C1: searchArticles never throws or rejects: whatever the query, the
\* collection, the settings and the outcome of the rerank call, it does not
\* end with an error, and when it has ended it has returned a list of guides
\* of the collection.
C1_NeverThrows ==
  called = "searchArticles" =>
    /\ outcome # "thrown"
    /\ (pc = "done" =>
          /\ outcome = "returned"
          /\ \A i \in 1..Len(result) : result[i] \in Range(articles))

\* a search has ended after the response had a message without content
C1_Witness ==
  /\ called = "searchArticles" /\ pc = "done"
  /\ rerank = "failed" /\ rerankError = "noContent"
  /\ outcome = "returned" /\ result # <<>>

\* C2: whenever the rerank stage fails, the list returned is the
\* keyword-ranked list of the same query and guides cut to its first 10
\* entries: same members, same order.
C2_FallbackIsKeywordTop10 ==
  (pc = "done" /\ rerank = "failed") =>
    result = slice(keywordSearch(query, articles), TopN)

\* a timed out rerank of more than 10 matching guides has fallen back
C2_Witness ==
  /\ pc = "done" /\ rerank = "failed" /\ rerankError = "timeout"
  /\ Len(keywordResults) > TopN
  /\ Len(result) = TopN

\* C3: when reranking is attempted and the remote call (request, status and
\* reading of the response body) has not resolved by the 10-second deadline,
\* the call is cancelled and searchArticles eventually resolves.
C3_TimeoutBoundsTheCall ==
  (pc \in {"awaitFetch", "awaitBody"} /\ clock >= LLM_TIMEOUT_MS) ~> (pc = "done")

\* C4: with reranking disabled, or the endpoint or the key empty,
\* searchArticles makes no request and returns the keyword-ranked top 10,
\* never an error.
C4_SkipWithoutNetwork ==
  (called = "searchArticles" /\ ~rerankConfigured(settings)) =>
    /\ requests = 0
    /\ outcome # "thrown"
    /\ (pc = "done" => result = slice(keywordSearch(query, articles), TopN))

\* C5: for every query, blank or not, every collection and every settings,
\* the list searchArticles returns has at most 10 guides.
C5_AtMostTopN ==
  (called = "searchArticles" /\ pc = "done") => Len(result) <= TopN

\* C6: for an empty or whitespace-only query, Search.search (keywordSearch)
\* returns the input collection unchanged: same guides, same order.
C6_BlankQueryIdentity ==
  (called = "search" /\ pc = "done" /\ IsBlank(query)) => result = articles

\* C7: for a non-empty query the keyword-ranked output holds exactly the
\* guides of the input whose score is greater than 0, each once.
C7_PositivityFilter ==
  (called = "search" /\ pc = "done" /\ ~IsBlank(query)) =>
    /\ Range(result) = {a \in Range(articles) : scoreOf(a) > 0}
    /\ Cardinality(Range(result)) = Len(result)

\* a ranking that kept some guides and dropped others
C7_Witness ==
  /\ called = "search" /\ pc = "done" /\ ~IsBlank(query)
  /\ result # <<>>
  /\ Len(result) < Len(articles)

\* C8: for a non-empty query the keyword-ranked output is ordered by score
\* descending, and guides of equal score keep the relative order they have in
\* the input collection.
C8_DescendingStable ==
  (called = "search" /\ pc = "done" /\ ~IsBlank(query)) =>
    LET sc == [i \in 1..Len(result) |-> scoreOf(result[i])]
        at == [i \in 1..Len(result) |-> position(result[i])]
    IN  \A i, j \in 1..Len(result) :
          i < j => \/ sc[i] > sc[j]
                   \/ sc[i] = sc[j] /\ at[i] < at[j]

\* a ranking with a tie and with two different scores, in which a later
\* guide of the input comes first
C8_Witness ==
  /\ called = "search" /\ pc = "done" /\ ~IsBlank(query)
  /\ Len(result) >= 3
  /\ LET sc == [i \in 1..Len(result) |-> scoreOf(result[i])]
     IN  /\ \E i \in 1..(Len(result) - 1) : sc[i] = sc[i + 1]
         /\ \E i \in 1..(Len(result) - 1) :
              sc[i] > sc[i + 1] /\ position(result[i]) > position(result[i + 1])

\* the number of literal occurrences of q in s, left to right, not overlapping
RECURSIVE literalOccurrences(_, _)
literalOccurrences(s, q) ==
  IF Len(s) < Len(q) THEN 0
  ELSE IF SubSeq(s, 1, Len(q)) = q
       THEN 1 + literalOccurrences(SubSeq(s, Len(q) + 1, Len(s)), q)
       ELSE literalOccurrences(Tail(s), q)

\* the single-token score as C9 states it, in tenths
singleTokenScore(q, a) ==
  LET title == toLowerCase(a.title)
      summary == toLowerCase(a.summary)
      body(i) == toLowerCase(stripHtml(a.steps[i].bodyHtml))
  IN  (IF includes(title, q) THEN 100 ELSE 0)
      + (IF includes(title, q) /\ startsWith(title, q) THEN 50 ELSE 0)
      + 50 * Cardinality({i \in 1..Len(a.tags) : includes(toLowerCase(a.tags[i]), q)})
      + (IF includes(summary, q) THEN 40 ELSE 0)
      + 20 * Cardinality({i \in 1..Len(a.steps) :
                            includes(toLowerCase(a.steps[i].title), q)})
      + SumSeq([i \in 1..Len(a.steps) |->
                  IF includes(body(i), q)
                  THEN 10 + Min(5 * literalOccurrences(body(i), q), 30) ELSE 0])

\* C9: for a single-token query a guide's score is 10 for the title
\* containing the query plus 5 for starting with it, 5 for each tag containing
\* it, 4 for the summary, 2 for each step title, and 1 + min(0.5 * occurrences,
\* 3) for each step body, with nothing else added; the password guide scores
\* 26 for the query "password".
C9_SingleTokenScore ==
  (called = "search" /\ pc = "done" /\ Len(tokenize(query)) = 1) =>
    /\ \A i \in 1..Len(articles) :
         scoreOf(articles[i]) = singleTokenScore(trim(toLowerCase(query)), articles[i])
    /\ \A i \in 1..Len(articles) :
         (query = <<"p","a","s","s","w","o","r","d">> /\ articles[i].title = PasswordGuide.title)
           => scoreOf(articles[i]) = 260

\* C10: whenever llmRerank succeeds, its result is a permutation of the
\* candidates, the first at most 20 keyword-ranked guides: every candidate
\* once, none added, none dropped, whatever ids the model answers with.
C10_RerankIsPermutation ==
  rerank = "succeeded" =>
    /\ candidateArticles = slice(keywordSearch(query, articles), MaxCandidates)
    /\ Len(llmResults) = Len(candidateArticles)
    /\ \A a \in Range(candidateArticles) :
         Cardinality({i \in 1..Len(llmResults) : llmResults[i] = a}) = 1

\* the assistant's text as llmRerank reads it
llmResponseText == trim(response.content)

\* C11 as stated: if the assistant's content is not valid JSON, or is a JSON
\* value that is not an array, the rerank stage fails and searchArticles
\* returns the keyword-ranked top 10.
C11_MalformedContentFallsBack ==
  (pc = "done" /\ response.kind = "content"
     /\ (~JSONparse(llmResponseText).ok \/ JSONparse(llmResponseText).val.type # "array")) =>
    /\ rerank = "failed"
    /\ result = slice(keywordResults, TopN)

\* C11 as amended: if the content has no "[" with a "]" after it and is not
\* valid JSON or is a JSON value that is not an array, or if it has one and
\* the text from its first "[" to its last "]" is not valid JSON, the rerank
\* stage fails and searchArticles returns the keyword-ranked top 10.
C11_UnlocatableArrayFallsBack ==
  (pc = "done" /\ response.kind = "content") =>
    LET span == arrayMatch(llmResponseText)
        malformed ==
          IF span = <<>>
          THEN ~JSONparse(llmResponseText).ok
               \/ JSONparse(llmResponseText).val.type # "array"
          ELSE ~JSONparse(span).ok
    IN  malformed =>
          /\ rerank = "failed"
          /\ outcome = "returned"
          /\ result = slice(keywordResults, TopN)

\* a search has fallen back on matching guides after the assistant answered
\* with a JSON object that holds no array
C11_Witness ==
  /\ pc = "done" /\ response.kind = "content"
  /\ JSONparse(llmResponseText).ok
  /\ JSONparse(llmResponseText).val.type = "object"
  /\ arrayMatch(llmResponseText) = <<>>
  /\ rerank = "failed" /\ rerankError = "notArray"
  /\ result # <<>>
C13_RequestDescribesCandidates ==
  requests > 0 =>
    LET ranked == keywordResults
    IN  /\ Len(prompt.articleData) = Min(20, Len(ranked))
        /\ \A i \in 1..Len(prompt.articleData) :
             prompt.articleData[i] =
               [id |-> ranked[i].id, title |-> ranked[i].title,
                summary |-> ranked[i].summary, tags |-> ranked[i].tags]

\* a request was made for more than 20 matching guides that have steps
C13_Witness ==
  /\ requests > 0
  /\ Len(keywordResults) > 20
  /\ Len(prompt.articleData) = 20
  /\ \A i \in 1..Len(keywordResults) : keywordResults[i].steps # <<>>
\* the list invocation c returns when it runs alone with its query, its
\* collection, its settings and the answer the remote service gave it
aloneResult(c) ==
  IF IsBlank(c.query) THEN c.articles
  ELSE IF c.articles = <<>> THEN <<>>
  ELSE LET ranked == keywordSearch(c.query, c.articles)
           parsed == parseRankedIds(trim(c.response.content))
       IN  IF rerankConfigured(c.settings) /\ ranked # <<>>
              /\ c.response.kind = "content" /\ parsed.error = "none"
           THEN slice(rerankWith(parsed.ids, slice(ranked, MaxCandidates)), TopN)
           ELSE slice(ranked, TopN)

\* invocation c has been touched by nothing but its own steps: its signal is
\* aborted only at its own deadline and what it returns is what it returns alone
independent(c) ==
  /\ c.aborted => c.clock >= LLM_TIMEOUT_MS
  /\ c.pc = "done" =>
       /\ c.outcome = "returned"
       /\ c.result = aloneResult(c)
       /\ c.rerankError = "timeout" => c.clock >= LLM_TIMEOUT_MS

C15_ReturnMeansWritten ==
  /\ returned.op = "upsertArticle" =>
       IF returned.value # Null
       THEN \E i \in 1..Len(stored) : stored[i] = returned.value
       ELSE stored = storedBefore
  /\ returned.op = "deleteArticle" =>
       IF returned.value
       THEN /\ stored # storedBefore
            /\ \A i \in 1..Len(stored) :
                 \E j \in 1..Len(storedBefore) : stored[i] = storedBefore[j]
       ELSE stored = storedBefore
\* the tokens of a query as C16 states them: the lowercase pieces of more
\* than 2 characters between runs of whitespace and punctuation
piecesOver2(text) ==
  SelectSeq(split(toLowerCase(text), <<>>), LAMBDA piece : Len(piece) > 2)

\* the bonus of one token as C16 states it, in tenths
tokenBonus(token, a) ==
  20 * Cardinality({i \in 1..Len(a.tags) : includes(toLowerCase(a.tags[i]), token)})
  + (IF includes(toLowerCase(a.title), token) THEN 10 ELSE 0)
  + (IF includes(toLowerCase(a.summary), token) THEN 5 ELSE 0)
  + 3 * Cardinality({i \in 1..Len(a.steps) :
                       includes(toLowerCase(stripHtml(a.steps[i].bodyHtml)), token)})

\* C16: when the query has more than one token (the lowercase pieces of
\* length > 2 between whitespace and punctuation), the score is the
\* single-token formula for the whole query plus, for every token, 2 per tag
\* containing it, 1 if the title contains it, 0.5 if the summary contains it
\* and 0.3 per step whose markup-stripped body contains it, and nothing else.
C16_MultiTokenBonus ==
  (called = "search" /\ pc = "done" /\ Len(piecesOver2(query)) > 1) =>
    LET tokens == piecesOver2(query)
    IN  \A i \in 1..Len(articles) :
          scoreOf(articles[i]) =
            singleTokenScore(trim(toLowerCase(query)), articles[i])
            + SumSeq([k \in 1..Len(tokens) |-> tokenBonus(tokens[k], articles[i])])

\* Search.search has ranked, for a query of two tokens and a shorter piece,
\* a guide that scores by its tokens alone and has the shorter piece in its
\* title
C16_Witness ==
  /\ called = "search" /\ pc = "done"
  /\ Len(piecesOver2(query)) = 2
  /\ Len(split(toLowerCase(query), <<>>)) = 3
  /\ \E i \in 1..Len(result) :
       /\ singleTokenScore(trim(toLowerCase(query)), result[i]) = 0
       /\ includes(toLowerCase(result[i].title), <<"t","o">>)
\* the ids the model named that are ids of candidates, each at its first mention
RECURSIVE firstMentions(_, _, _)
firstMentions(ids, candidates, seen) ==
  IF ids = <<>> THEN <<>>
  ELSE IF Head(ids) \in seen \/ ~\E i \in 1..Len(candidates) : candidates[i].id = Head(ids)
       THEN firstMentions(Tail(ids), candidates, seen)
       ELSE <<Head(ids)>> \o firstMentions(Tail(ids), candidates, seen \cup {Head(ids)})

\* the order C17 states: the candidates named, in the model's order, then
\* every candidate not among them in its keyword-ranked place
statedOrder(ids, candidates) ==
  LET mentions == firstMentions(ids, candidates, {})
      named == [k \in 1..Len(mentions) |->
                  candidates[CHOOSE i \in 1..Len(candidates) :
                               /\ candidates[i].id = mentions[k]
                               /\ \A j \in 1..(i - 1) : candidates[j].id # mentions[k]]]
  IN  named \o SelectSeq(candidates, LAMBDA a : a \notin Range(named))

\* C17: on rerank success the result lists first the candidates the model
\* named, in the model's order, each once at its first mention, ids that are
\* not candidates skipped, then every candidate the model did not name in its
\* keyword-ranked order.
C17_NamedFirstThenTheRest ==
  (pc = "done" /\ rerank = "succeeded" /\ response.kind = "content") =>
    LET ids == parseRankedIds(llmResponseText).ids
    IN  /\ llmResults = statedOrder(ids, candidateArticles)
        /\ result = slice(llmResults, TopN)
C19_OneRequestOneOutcome ==
  /\ [](requests <= 1)
  /\ [][requests' # requests =>
          /\ pc = "idle" /\ pc' = "awaitFetch"
          /\ requests = 0 /\ requests' = 1
          /\ keywordResults' = keywordSearch(query, articles)
          /\ candidateArticles' = slice(keywordResults', MaxCandidates)]_vars
  /\ []((pc = "done" /\ called = "searchArticles") =>
          /\ outcome = "returned"
          /\ rerank \in {"notRun", "succeeded", "failed"}
          /\ rerank = "notRun" => requests = 0
          /\ rerank = "failed" => requests = 1 /\ result = slice(keywordResults, TopN))
  /\ [][pc = "done" =>
          /\ pc' = "done"
          /\ UNCHANGED <<outcome, result, rerank, requests>>]_vars

\* the one request of an invocation was refused by the endpoint and
\* searchArticles has returned matching guides
C19_Witness ==
  /\ pc = "done" /\ called = "searchArticles"
  /\ requests = 1
  /\ rerank = "failed" /\ rerankError = "status"
  /\ result # <<>>
\* what the body of a step adds to the score for the whole query, in tenths
bodyPoints(step, q) ==
  stepScore(step, q) - (IF includes(toLowerCase(step.title), q) THEN 20 ELSE 0)

arraySpans(text) ==
  {span \in (1..Len(text)) \X (1..Len(text)) :
     /\ span[1] < span[2]
     /\ text[span[1]] = "[" /\ text[span[2]] = "]"
     /\ JSONparse(SubSeq(text, span[1], span[2])).ok}

\* the first of them
firstArraySpan(text) ==
  LET span == CHOOSE s \in arraySpans(text) :
                \A o \in arraySpans(text) :
                  s[1] < o[1] \/ (s[1] = o[1] /\ s[2] <= o[2])
  IN  SubSeq(text, span[1], span[2])

\* C21: if the assistant's text holds a well-formed JSON array, with or
\* without other text before and after it, llmRerank finds the first
\* well-formed bracketed span, parses it and reranks with it; it fails with a
\* parse error only when the text holds no array or the array does not parse.
C21_FirstArrayIsUsed ==
  (pc = "done" /\ response.kind = "content") =>
    /\ arraySpans(llmResponseText) # {} =>
         /\ rerank = "succeeded"
         /\ llmResults =
              rerankWith(stringIds(JSONparse(firstArraySpan(llmResponseText)).val.items),
                         candidateArticles)
    /\ rerankError = "unparsable" => arraySpans(llmResponseText) = {}
\* the stored copies of the dummy article with a title
dummyCopies(title) ==
  {i \in 1..Len(stored) :
     stored[i].source = "dummy" /\ stored[i].title = title}

\* the calls of loadDummyArticlesIfNeeded that have returned
dummyLoads ==
  {t \in DOMAIN tasks :
     tasks[t].op = "loadDummyArticlesIfNeeded" /\ tasks[t].pc = "done"}

\* C22: whatever calls of loadDummyArticlesIfNeeded have been made, one after
\* the other or overlapping, the store holds no dummy article twice, and a
\* call that found the dummy articles disabled or present has saved nothing
\* and reports loaded: false
C22_DummySetLoadedOnce ==
  /\ \A i \in 1..DummyCount :
       Cardinality(dummyCopies(createDummyArticles(0)[i].title)) <= 1
  /\ \A t \in dummyLoads :
       tasks[t].value \in {"disabled", "already-loaded"}
         => tasks[t].saved = <<>>

\* context t finishes a repository sync with this step, with value
syncReturns(t, value) ==
  /\ tasks[t] # tasks'[t]
  /\ tasks'[t].op = "syncFromRepo"
  /\ tasks'[t].pc = "done"
  /\ tasks'[t].value = value

\* C23: a sync that succeeds puts the fetched valid articles in the place of
\* the stored articles of source 'repo' and leaves the other stored articles
\* as they are, in their order; a sync that fails leaves the stored
\* collection as it is
C23_SyncReplacesRepoArticlesOnly ==
  [][\A t \in DOMAIN tasks :
       /\ syncReturns(t, "success") =>
            /\ nonRepoArticles(stored') = nonRepoArticles(stored)
            /\ SelectSeq(stored', LAMBDA a : a.source = "repo")
                 = tasks[t].pending
       /\ syncReturns(t, "failure") => stored' = stored]_vars

\* C24: after any sequence of upsertArticle, deleteArticle, importArticleFile,
\* loadDummyArticlesIfNeeded and repository syncs from an empty store, no two
\* stored articles have the same id
C24_StoredIdsUnique ==
  \A i, j \in 1..Len(stored) : i # j => stored[i].id # stored[j].id

\* context t has made a call of upsertArticle that returned an article
upsertReturned(t) ==
  /\ tasks[t].op = "upsertArticle"
  /\ tasks[t].pc = "done"
  /\ tasks[t].value = "article"

\* the article with this id is stored
isStored(id) == \E i \in 1..Len(stored) : stored[i].id = id

\* C29: when the only calls made on an empty store are two calls of
\* upsertArticle for different ids, overlapping or not, and both have returned
\* an article, both articles are stored
C29_NoUpsertLost ==
  \A t, u \in DOMAIN tasks :
    ( /\ t # u
      /\ started = 2
      /\ upsertReturned(t) /\ upsertReturned(u)
      /\ tasks[t].saved[1].id # tasks[u].saved[1].id )
    => isStored(tasks[t].saved[1].id) /\ isStored(tasks[u].saved[1].id)

\* C25: when the rerank is enabled and configured and no guide of the
\* collection has a positive score for the query, searchArticles returns the
\* empty list and has issued no request
C25_NoMatchNoRequest ==
  ( /\ called = "searchArticles"
    /\ rerankConfigured(settings)
    /\ \A i \in 1..Len(articles) : scoreOf(articles[i]) <= 0 )
  => /\ pc = "done"
     /\ outcome = "returned"
     /\ result = <<>>
     /\ requests = 0

C25_Witness ==
  /\ called = "searchArticles"
  /\ rerankConfigured(settings)
  /\ ~IsBlank(query)
  /\ articles # <<>>
  /\ \A i \in 1..Len(articles) : scoreOf(articles[i]) <= 0
  /\ rerank = "succeeded"
  /\ result = <<>>
  /\ requests = 0

(***************************************************************************)
(* The popup: one article in the step view, and the search box.  A click   *)
(* runs its handler up to the handler's next await; the handlers that wait *)
(* go on when what they wait for is there, in any order.                   *)
(***************************************************************************)
\* the most steps of the article shown
MaxSteps == 2

\* the most handlers waiting at a time
MaxHandlers == 2

\* renderStepView: the summary once the article is completed and the last
\* step is reached; steps[currentStepIndex] of no step is undefined, reading
\* its title throws and the viewer keeps what it shows
renderStepView(index, state, v) ==
  IF state.completedAt /\ index >= totalSteps - 1
  THEN [v EXCEPT !.shows = "summary"]
  ELSE IF index \notin 0..(totalSteps - 1)
  THEN v
  ELSE [v EXCEPT !.shows = "step",
                 !.backDisabled = (index = 0),
                 !.resetShown = (state.completedStepIndexes # {})]

\* s without its k-th element
removeAt(s, k) == SubSeq(s, 1, k - 1) \o SubSeq(s, k + 1, Len(s))

\* displayArticle(articleId) for an article with n steps
displayArticle(n) ==
  /\ view.shows = "none"
  /\ totalSteps' = n
  /\ currentStepIndex' = 0
  /\ view' = [view EXCEPT !.shows = "step", !.backDisabled = TRUE,
                          !.resetShown =
                             (completionState.completedStepIndexes # {})]
  /\ UNCHANGED <<completionState, handlers, displayed, lastQuery, options,
                 searchVars, storage>>

\* click on Back
handleStepBack ==
  /\ view.shows = "step" /\ ~view.backDisabled /\ ~view.modal
  /\ IF currentStepIndex > 0
     THEN /\ currentStepIndex' = currentStepIndex - 1
          /\ view' = renderStepView(currentStepIndex', completionState, view)
     ELSE UNCHANGED <<currentStepIndex, view>>
  /\ UNCHANGED <<totalSteps, completionState, handlers, displayed, lastQuery,
                 options, searchVars, storage>>

\* click on Continue: handleStepContinue up to the await in
\* markStepCompleted, which has put the step among the completed ones
handleStepContinue ==
  /\ view.shows = "step" /\ ~view.modal
  /\ Len(handlers) < MaxHandlers
  /\ currentStepIndex < totalSteps + MaxHandlers
  /\ completionState' =
       [completionState EXCEPT
          !.completedStepIndexes = @ \cup {currentStepIndex}]
  /\ handlers' = Append(handlers,
                        [handler |-> "handleStepContinue",
                         at |-> "markStepCompleted",
                         isLastStep |-> (currentStepIndex = totalSteps - 1),
                         query |-> <<>>])
  /\ UNCHANGED <<totalSteps, currentStepIndex, view, displayed, lastQuery,
                 options, searchVars, storage>>

\* handleStepContinue goes on after markStepCompleted: to the await in
\* markArticleCompleted, which has set completedAt, or to the next step
stepMarked(k) ==
  /\ handlers[k].handler = "handleStepContinue"
  /\ handlers[k].at = "markStepCompleted"
  /\ IF handlers[k].isLastStep
     THEN /\ completionState' = [completionState EXCEPT !.completedAt = TRUE]
          /\ handlers' = [handlers EXCEPT ![k].at = "markArticleCompleted"]
          /\ UNCHANGED <<currentStepIndex, view>>
     ELSE /\ currentStepIndex' = currentStepIndex + 1
          /\ view' = renderStepView(currentStepIndex', completionState, view)
          /\ handlers' = removeAt(handlers, k)
          /\ UNCHANGED completionState
  /\ UNCHANGED <<totalSteps, displayed, lastQuery, options, searchVars,
                 storage>>

\* handleStepContinue goes on after markArticleCompleted:
\* renderCompletionSummary
articleMarked(k) ==
  /\ handlers[k].handler = "handleStepContinue"
  /\ handlers[k].at = "markArticleCompleted"
  /\ view' = [view EXCEPT !.shows = "summary"]
  /\ handlers' = removeAt(handlers, k)
  /\ UNCHANGED <<totalSteps, currentStepIndex, completionState, displayed,
                 lastQuery, options, searchVars, storage>>

\* click on Preview all steps
showPreviewAllSteps ==
  /\ view.shows = "step" /\ ~view.modal
  /\ view' = [view EXCEPT !.modal = TRUE]
  /\ UNCHANGED <<totalSteps, currentStepIndex, completionState, handlers,
                 displayed, lastQuery, options, searchVars, storage>>

\* click on a step of the preview
previewStepClick(stepIndex) ==
  /\ view.modal
  /\ currentStepIndex' = stepIndex
  /\ view' = renderStepView(stepIndex, completionState,
                            [view EXCEPT !.modal = FALSE])
  /\ UNCHANGED <<totalSteps, completionState, handlers, displayed, lastQuery,
                 options, searchVars, storage>>

\* click on the close button of the preview or beside it
closeModal ==
  /\ view.modal
  /\ view' = [view EXCEPT !.modal = FALSE]
  /\ UNCHANGED <<totalSteps, currentStepIndex, completionState, handlers,
                 displayed, lastQuery, options, searchVars, storage>>

\* click on Reset progress: handleResetProgress up to the await in
\* resetArticleProgress, which has deleted the state of the article
handleResetProgress(confirmed) ==
  /\ ~view.modal
  /\ view.shows = "summary" \/ (view.shows = "step" /\ view.resetShown)
  /\ Len(handlers) < MaxHandlers
  /\ IF confirmed
     THEN /\ completionState' = NoCompletion
          /\ handlers' = Append(handlers,
                                [handler |-> "handleResetProgress",
                                 at |-> "resetArticleProgress",
                                 isLastStep |-> FALSE,
                                 query |-> <<>>])
     ELSE UNCHANGED <<completionState, handlers>>
  /\ UNCHANGED <<totalSteps, currentStepIndex, view, displayed, lastQuery,
                 options, searchVars, storage>>

\* handleResetProgress goes on after resetArticleProgress
progressReset(k) ==
  /\ handlers[k].handler = "handleResetProgress"
  /\ currentStepIndex' = 0
  /\ view' = renderStepView(0, completionState, view)
  /\ handlers' = removeAt(handlers, k)
  /\ UNCHANGED <<totalSteps, completionState, displayed, lastQuery, options,
                 searchVars, storage>>

\* click on Review Steps of the summary
reviewSteps ==
  /\ view.shows = "summary" /\ ~view.modal
  /\ currentStepIndex' = 0
  /\ view' = renderStepView(0, completionState, view)
  /\ UNCHANGED <<totalSteps, completionState, handlers, displayed, lastQuery,
                 options, searchVars, storage>>

\* what the search box holds when a search is submitted
PopupQueries == { <<>>, <<"p","a","s","s","w","o","r","d">>, <<"S","i","g","n"," ","i","n"," ">> }

\* the invocation of Search.searchArticles that handleSearch makes for a
\* query, answered with data
invocation(q, data) ==
  [query |-> q, articles |-> articles, settings |-> settings,
   response |-> data]

\* what the remote service may answer the search of a query with
answers(q) == ConcBodies(slice(keywordSearch(q, articles), MaxCandidates))

\* searchArticles of a query reaches its fetch
reachesFetch(q) ==
  /\ rerankConfigured(settings)
  /\ articles # <<>>
  /\ ~nothingToRerank(keywordSearch(q, articles))

\* click on Search or Enter in the search box: handleSearch up to the
\* fetch of searchArticles; a search that makes no request is through
\* before the next event is handled
handleSearch(value) ==
  /\ LET q == trim(value)
     IN  IF q = <<>>
         THEN /\ displayed' = articles
              /\ lastQuery' = q
              /\ UNCHANGED handlers
         ELSE /\ lastQuery' = q
              /\ IF reachesFetch(q)
                 THEN /\ Len(handlers) < MaxHandlers
                      /\ handlers' = Append(handlers,
                                            [handler |-> "handleSearch",
                                             at |-> "searchArticles",
                                             isLastStep |-> FALSE,
                                             query |-> q])
                      /\ UNCHANGED displayed
                 ELSE /\ displayed' = aloneResult(invocation(q, NoResponse))
                      /\ UNCHANGED handlers
  /\ UNCHANGED <<totalSteps, currentStepIndex, completionState, view, options,
                 searchVars, storage>>

\* handleSearch goes on after searchArticles: displayResults(results)
searchReturned(k, data) ==
  /\ handlers[k].handler = "handleSearch"
  /\ data \in answers(handlers[k].query)
  /\ displayed' = aloneResult(invocation(handlers[k].query, data))
  /\ handlers' = removeAt(handlers, k)
  /\ UNCHANGED <<totalSteps, currentStepIndex, completionState, view,
                 lastQuery, options, searchVars, storage>>

\* the popup once its DOMContentLoaded handler is through: loadArticles has
\* displayed the articles loaded
InitPopup ==
  /\ query = <<>>
  /\ articles = ConcArticles
  /\ settings \in ConcSettings
  /\ suspended = <<>>
  /\ Idle
  /\ StoreIdle
  /\ UiIdle(articles)

NextPopup ==
  \/ \E n \in 1..MaxSteps : displayArticle(n)
  \/ handleStepBack
  \/ handleStepContinue
  \/ \E k \in 1..Len(handlers) : stepMarked(k)
  \/ \E k \in 1..Len(handlers) : articleMarked(k)
  \/ showPreviewAllSteps
  \/ \E stepIndex \in 0..(totalSteps - 1) : previewStepClick(stepIndex)
  \/ closeModal
  \/ \E confirmed \in BOOLEAN : handleResetProgress(confirmed)
  \/ \E k \in 1..Len(handlers) : progressReset(k)
  \/ reviewSteps
  \/ \E value \in PopupQueries : handleSearch(value)
  \/ \E k \in 1..Len(handlers) :
       \E data \in UNION {answers(q) : q \in PopupQueries} :
         searchReturned(k, data)

\* the events of the popup and the handlers they start
PopupSpec == InitPopup /\ [][NextPopup]_vars

\* C26: while an article with n >= 1 steps is shown, currentStepIndex is one
\* of 0..n-1, whatever Back, Continue, preview and Reset events are handled
\* and however they fall between an earlier Continue and its storage write
C26_StepIndexInRange ==
  totalSteps >= 1 => currentStepIndex \in 0..(totalSteps - 1)

\* C27: the completion state of the article has completedAt only if every
\* step 0..n-1 is among its completedStepIndexes
C27_CompletedMeansEveryStep ==
  completionState.completedAt
    => \A i \in 0..(totalSteps - 1) :
         i \in completionState.completedStepIndexes

\* the lists searchArticles may return for a query
resultsOf(q) == {aloneResult(invocation(q, data)) : data \in answers(q)}

\* a search is waiting for searchArticles
searching == \E k \in 1..Len(handlers) : handlers[k].handler = "handleSearch"

\* C30: once no search is in flight, the list the popup displays is a result
\* of the query submitted last
C30_DisplayedIsLatestQuery ==
  ~searching => displayed \in resultsOf(lastQuery)

(***************************************************************************)
(* The options page: the settings form and its Save button                 *)
(***************************************************************************)
\* the values the user gives the fields of the form
FieldValues ==
  [repoSourceType |-> {"url", "azure"},
   repoUrl |-> { <<>>, <<" "," ">>, <<"r","e","p","o">>, <<"h","t","t","p","s",":","/","/","r",".","e","x","a","m","p","l","e","/","a",".","j","s","o","n"," ">> },
   azureApiBaseUrl |-> { <<>>, <<"h","t","t","p","s",":","/","/","d","e","v",".","a","z","u","r","e",".","c","o","m","/","o">> },
   azurePat |-> { <<>>, <<"p","a","t">> },
   enableLLMSearch |-> BOOLEAN,
   llmEndpoint |-> { <<>>, <<"h","t","t","p","s",":","/","/","l","l","m",".","e","x","a","m","p","l","e","/","v","1">> },
   llmApiKey |-> { <<>>, <<"s","k","-","k","e","y">> }]

\* the settings handleSaveSettings reads from the form
formSettings(f) ==
  [repoSourceType |-> f.repoSourceType,
   repoUrl |-> trim(f.repoUrl),
   azureApiBaseUrl |-> trim(f.azureApiBaseUrl),
   azurePat |-> trim(f.azurePat),
   enableLLMSearch |-> f.enableLLMSearch,
   llmEndpoint |-> trim(f.llmEndpoint),
   llmApiKey |-> trim(f.llmApiKey)]

\* new URL(text) does not throw: a scheme, a colon and something after it
parsesAsURL(text) ==
  \E i \in 2..(Len(text) - 1) :
    /\ text[i] = ":"
    /\ \A j \in 1..(i - 1) : text[j] \in {"h", "t", "p", "s"}

\* validateSettings
validateSettings(s) ==
  /\ s.repoSourceType = "url"
       => s.repoUrl # <<>> /\ parsesAsURL(s.repoUrl)
  /\ s.repoSourceType = "azure"
       => s.azureApiBaseUrl # <<>> /\ s.azurePat # <<>>
  /\ s.enableLLMSearch
       => s.llmEndpoint # <<>> /\ s.llmApiKey # <<>>

\* the user changes a field of the form
input(field, value) ==
  /\ value \in FieldValues[field]
  /\ form' = [form EXCEPT ![field] = value]
  /\ UNCHANGED <<saveBtnDisabled, saves, status, popup, searchVars, storage>>

\* the form is submitted with the Save button: handleSaveSettings up to the
\* await of Storage.setSettings, or to its return when validateSettings
\* refuses the settings
handleSaveSettings ==
  /\ ~saveBtnDisabled
  /\ saveBtnDisabled' = TRUE
  /\ IF ~validateSettings(formSettings(form))
     THEN /\ status' = "error"
          /\ UNCHANGED saves
     ELSE /\ saves' = Append(saves, "setSettings")
          /\ UNCHANGED status
  /\ UNCHANGED <<form, popup, searchVars, storage>>

\* Storage.setSettings returns to handleSaveSettings: true, or false when
\* the write failed
setSettingsReturns(success) ==
  /\ saves # <<>> /\ Head(saves) = "setSettings"
  /\ IF success
     THEN /\ status' = "success"
          /\ saves' = <<"setTimeout">> \o Tail(saves)
          /\ UNCHANGED saveBtnDisabled
     ELSE /\ status' = "error"
          /\ saveBtnDisabled' = FALSE
          /\ saves' = Tail(saves)
  /\ UNCHANGED <<form, popup, searchVars, storage>>

\* the write of the settings ends one way or the other
setSettingsEnds == \E success \in BOOLEAN : setSettingsReturns(success)

\* the timeout handleSaveSettings set after a save fires
saveTimeout ==
  /\ saves # <<>> /\ Head(saves) = "setTimeout"
  /\ saveBtnDisabled' = FALSE
  /\ saves' = Tail(saves)
  /\ UNCHANGED <<form, status, popup, searchVars, storage>>

InitOptions ==
  /\ query = <<>>
  /\ articles = <<>>
  /\ settings = DefaultSettings
  /\ suspended = <<>>
  /\ Idle
  /\ StoreIdle
  /\ UiIdle(<<>>)

NextOptions ==
  \/ \E field \in DOMAIN FieldValues :
       \E value \in FieldValues[field] : input(field, value)
  \/ handleSaveSettings
  \/ setSettingsEnds
  \/ saveTimeout

\* the events of the options page
OptionsSpec == InitOptions /\ [][NextOptions]_vars

\* the storage write ends and the timer fires; the user need not do anything
OptionsLiveSpec ==
  OptionsSpec /\ WF_vars(setSettingsEnds) /\ WF_vars(saveTimeout)

\* C28: after every submission of the settings form, refused, failed or
\* saved, the Save button is enabled again at some later time
C28_SaveButtonComesBack == saveBtnDisabled ~> ~saveBtnDisabled

====
